---------------------------- MODULE Spec2Model ----------------------------
(***************************************************************************)
(* A model of the RAM Resource Controls extension: the override lists of   *)
(* WhitelistManager, the memory sampler and the eviction cycles of         *)
(* ResourceControls (v3.0) and of the background service worker (v2.0).    *)
(*                                                                         *)
(* Strings that the code inspects character by character (domains,         *)
(* hostnames) are tuples of one-character strings.  Times are whole        *)
(* seconds (1000 ms of Date.now()).                                        *)
(***************************************************************************)
EXTENDS Integers, Sequences, FiniteSets, TLC

VARIABLES
  \* WhitelistManager
  whitelist,        \* this.whitelist: a Set, kept in insertion order
  blacklist,        \* this.blacklist
  patterns,         \* this.patterns: {whitelist: [RegExp], blacklist: [RegExp]}
  storedLists,      \* chrome.storage.local: whitelist / blacklist
  policyQuery,      \* the getSleepPriority / canSleep call answered last, None after a mutation
  \* ResourceControls: memory sampler
  now,              \* Date.now()
  config,           \* this.config
  memoryCache,      \* this.memoryCache
  memoryCacheTime,  \* this.memoryCacheTime
  memCalls,         \* the last getMemoryInfo call: what it found and what it returned
  \* the tiered pass of checkAndSleepTabs, applied to drawn inputs
  tierIn,
  tierOut,
  \* the browser
  hostTabs,         \* chrome.tabs: url, audible, discarded of every open tab
  activeTab,        \* the active tab of the current window, 0 when there is none
  memSource,        \* what chrome.system.memory.getInfo() answers
  failTab,          \* the tab chrome.tabs.discard rejects, 0 when there is none
  \* ResourceControls: tab tracking and statistics
  tabActivityTimes, \* this.tabActivityTimes, 0 for a tab that has no entry
  tabMetadata,      \* this.tabMetadata
  stats,            \* this.stats
  store,            \* chrome.storage.local: totalTabsSlept, lastSleepTime
  \* the eviction cycles started so far, finished or suspended at an await
  cycles,
  \* shouldTabSleep applied to drawn tabs
  sleepIn,
  sleepOut,
  \* ResourceControls: the debounced save of the activity maps
  saveTimeout,      \* this.saveTimeout: the id setTimeout returned last, 0 for null
  timers,           \* the pending timers of the worker: id and milliseconds left
  timerIds,         \* how many timers setTimeout has made
  storedTabs,       \* chrome.storage.local: tabActivityTimes, tabMetadata
  clockMs,          \* milliseconds since the first state
  saveLog,          \* what the save calls and the Store writes have been so far
  \* the settings in the Store
  storedConfig,     \* chrome.storage.local: ramLimit, sleepTimer, autoSleep, aggressiveMode
  \* PrivacyManager and the backup in transit
  isPrivacyMode,    \* PrivacyManager.isPrivacyMode
  encryptionKey,    \* PrivacyManager.encryptionKey
  blob,             \* Some(string returned by the last exportAllData), or None
  backupLog,        \* what was exported and what the last importAllData met
  \* the RegExp objects of WhitelistManager.patterns, and the calls made
  lastIndex,        \* lastIndex of every compiled pattern, per list
  queryLog,         \* the getSleepPriority calls so far: url and value returned
  \* APIManager
  apiManager,       \* apiEnabled, apiKeys and requestCounts of the APIManager
  apiLog,           \* the requests let through at each moment, and the last answer
  \* the service worker's message listener
  managersReady,    \* initializeManagers has assigned the global instances
  messages,         \* the runtime messages received: request, position, responses sent
  \* calculateSleepScore applied to drawn tabs
  scoreIn,
  scoreOut,
  \* ResourceControls.initialize and the tab event listeners
  enginePc,         \* where initialize() is: "get", "query" or "ready"
  restored,         \* the entries of the two Maps that have string keys
  wakes,            \* the wakeTab calls waiting for chrome.tabs.get
  eventLog,         \* the tab events so far
  \* calculateEffectiveSleepTimer applied to drawn readings
  timerIn,
  timerOut

policyVars == <<whitelist, blacklist, patterns, storedLists, policyQuery>>
memVars == <<now, config, memoryCache, memoryCacheTime, memCalls>>
tierVars == <<tierIn, tierOut>>
hostVars == <<hostTabs, activeTab, memSource, failTab>>
trackVars == <<tabActivityTimes, tabMetadata, stats, store>>
cycVars == <<hostVars, trackVars, cycles>>
sleepVars == <<sleepIn, sleepOut>>
saveVars == <<saveTimeout, timers, timerIds, storedTabs, clockMs, saveLog>>
privVars == <<isPrivacyMode, encryptionKey, blob, backupLog>>
queryVars == <<lastIndex, queryLog>>
apiVars == <<apiManager, apiLog>>
msgVars == <<managersReady, messages>>
scoreVars == <<scoreIn, scoreOut>>
eventVars == <<enginePc, restored, wakes, eventLog>>
timerVars == <<timerIn, timerOut>>

lateVars == <<scoreVars, eventVars, timerVars>>
auxVars == <<sleepVars, saveVars, storedConfig, privVars, queryVars, apiVars, msgVars, lateVars>>

\* null / undefined: a string where the value is a string, NullDomain where
\* it is a text, None where it is an object (Some(x) is the object x)
Null == "null"

NullDomain == <<"null">>

None == <<>>

Some(x) == <<x>>

Range(s) == {s[i] : i \in 1..Len(s)}

Min(a, b) == IF a < b THEN a ELSE b

Max(a, b) == IF a > b THEN a ELSE b

(***************************************************************************)
(* WhitelistManager                                                        *)
(***************************************************************************)

\* String.prototype.toLowerCase, on the letters the model uses
LowerChar(c) == IF c = "A" THEN "a" ELSE IF c = "M" THEN "m" ELSE c

ToLowerCase(s) == [i \in 1..Len(s) |-> LowerChar(s[i])]

\* s.split(sep)[0]: the part of s before the first sep
RECURSIVE SplitFirst(_, _)
SplitFirst(s, sep) ==
  IF s = <<>> \/ Head(s) = sep THEN <<>>
  ELSE <<Head(s)>> \o SplitFirst(Tail(s), sep)

\* normalizeDomain: lower-case, drop the protocol, the path and the port.
\* A raw input is [proto |-> BOOLEAN, rest |-> characters]: proto says that
\* the text starts with http:// or https://, which the replace removes.
\* A missing or empty input gives null.
normalizeDomain(raw) ==
  IF raw.rest = NullDomain \/ (raw.rest = <<>> /\ ~raw.proto) THEN NullDomain
  ELSE LET lowered == ToLowerCase(raw.rest)
           noPath == SplitFirst(lowered, "/")
           noPort == SplitFirst(noPath, ":")
       IN noPort

\* One character of a domain as the RegExp source compilePatterns builds
\* reads it: "." is escaped to a literal dot, "*" becomes ".*", and every
\* other character goes into the source as it is, so "|" is the
\* alternation operator of the regular expression.
CompileChar(c) ==
  IF c = "." THEN [t |-> "lit", c |-> "."]
  ELSE IF c = "*" THEN [t |-> "any"]
  ELSE IF c = "|" THEN [t |-> "alt"]
  ELSE [t |-> "lit", c |-> c]

CompileCharUnescapedDot(c) ==
  IF c = "." THEN [t |-> "anychar"]
  ELSE IF c = "*" THEN [t |-> "any"]
  ELSE IF c = "|" THEN [t |-> "alt"]
  ELSE [t |-> "lit", c |-> c]

\* new RegExp('^' + pattern + '$', 'i') for one domain
CompileDomain(domain) == [i \in 1..Len(domain) |-> CompileChar(domain[i])]

\* compilePatterns(type), for the list of that type
compilePatterns(list) == [i \in 1..Len(list) |-> CompileDomain(list[i])]

\* The alternatives of a regular expression: its parts between "|"
RECURSIVE Alternatives(_)
Alternatives(re) ==
  IF \A i \in 1..Len(re) : re[i].t # "alt" THEN <<re>>
  ELSE LET k == CHOOSE i \in 1..Len(re) :
                  re[i].t = "alt" /\ \A j \in 1..(i - 1) : re[j].t # "alt"
       IN <<SubSeq(re, 1, k - 1)>> \o Alternatives(SubSeq(re, k + 1, Len(re)))

\* Whether the tokens match the whole of s (flag i: letters compare
\* case-insensitively)
RECURSIVE MatchAll(_, _)
MatchAll(toks, s) ==
  IF toks = <<>> THEN s = <<>>
  ELSE IF Head(toks).t = "any"
       THEN \E k \in 0..Len(s) : MatchAll(Tail(toks), SubSeq(s, k + 1, Len(s)))
  ELSE IF Head(toks).t = "anychar"
       THEN s # <<>> /\ MatchAll(Tail(toks), Tail(s))
  ELSE /\ s # <<>>
       /\ LowerChar(Head(toks).c) = LowerChar(Head(s))
       /\ MatchAll(Tail(toks), Tail(s))

\* RegExp.prototype.test for '^' + source + '$': "^" binds to the first
\* alternative only and "$" to the last one only; an alternative without
\* its anchor matches anywhere in s.
RegExpTest(re, s) ==
  LET alts == Alternatives(re)
  IN \E a \in 1..Len(alts) :
       \E from \in 1..(Len(s) + 1) :
         \E to \in (from - 1)..Len(s) :
           /\ a = 1 => from = 1
           /\ a = Len(alts) => to = Len(s)
           /\ MatchAll(alts[a], SubSeq(s, from, to))

\* new URL(url).hostname: a url is [scheme, host]; scheme "invalid" is a
\* string the URL constructor rejects
UrlParses(url) == url.scheme # "invalid"

Hostname(url) == url.host

ListMatches(list, pats, url) ==
  IF ~UrlParses(url) THEN FALSE
  ELSE \/ Hostname(url) \in Range(list)
       \/ \E i \in 1..Len(pats) : RegExpTest(pats[i], Hostname(url))

isWhitelisted(url) == ListMatches(whitelist, patterns.whitelist, url)

isBlacklisted(url) == ListMatches(blacklist, patterns.blacklist, url)

canSleepDenyFirst(url) ==
  IF isBlacklisted(url) THEN "true"
  ELSE IF isWhitelisted(url) THEN "false"
  ELSE Null

canSleep(url) ==
  IF isWhitelisted(url) THEN "false"
  ELSE IF isBlacklisted(url) THEN "true"
  ELSE Null

getSleepPriorityDenyFirst(url) ==
  IF isBlacklisted(url) THEN 2
  ELSE IF isWhitelisted(url) THEN 0
  ELSE 1

getSleepPriority(url) ==
  IF isWhitelisted(url) THEN 0
  ELSE IF isBlacklisted(url) THEN 2
  ELSE 1

\* Set.prototype.add / delete on a Set kept in insertion order
SetAdd(list, d) == IF d \in Range(list) THEN list ELSE Append(list, d)

SetDelete(list, d) == SelectSeq(list, LAMBDA x : x # d)


\* The values the variables of a part hold while a specification leaves
\* that part alone
DefaultConfig ==
  [ramLimit |-> 2000, sleepTimer |-> 10, autoSleep |-> FALSE,
   aggressiveMode |-> FALSE, minInactiveTime |-> 60000, maxCacheAge |-> 2000,
   emergencyThreshold |-> 85, warningThreshold |-> 70, optimalThreshold |-> 60]

PolicyIdle ==
  /\ whitelist = <<>>
  /\ blacklist = <<>>
  /\ patterns = [whitelist |-> <<>>, blacklist |-> <<>>]
  /\ storedLists = [whitelist |-> <<>>, blacklist |-> <<>>]
  /\ policyQuery = None

MemIdle ==
  /\ now = 0
  /\ config = DefaultConfig
  /\ memoryCache = None
  /\ memoryCacheTime = 0
  /\ memCalls = None

TierIdle ==
  /\ tierIn = None
  /\ tierOut = None

SleepIdle ==
  /\ sleepIn = None
  /\ sleepOut = None

NoSaveLog == [calls |-> 0, bursts |-> 0, writes |-> 0, sinceCall |-> 0, writeDelay |-> 0]

SaveIdle ==
  /\ saveTimeout = 0
  /\ timers = {}
  /\ timerIds = 0
  /\ storedTabs = None
  /\ clockMs = 0
  /\ saveLog = NoSaveLog

\* No setting has been stored
NoStoredConfig ==
  [ramLimit |-> None, sleepTimer |-> None, autoSleep |-> None, aggressiveMode |-> None]

ConfigIdle == storedConfig = NoStoredConfig

\* PrivacyManager as constructed, nothing exported
PrivIdle ==
  /\ isPrivacyMode = FALSE
  /\ encryptionKey = 0
  /\ blob = None
  /\ backupLog = [exported |-> None, import |-> None]

\* No getSleepPriority call is followed
QueryIdle ==
  /\ lastIndex = [whitelist |-> <<>>, blacklist |-> <<>>]
  /\ queryLog = <<>>

\* APIManager as constructed, no request yet
ApiIdle ==
  /\ apiManager = [apiEnabled |-> FALSE, apiKeys |-> <<>>, requestCounts |-> <<>>]
  /\ apiLog = [passed |-> <<>>, last |-> None]

\* The managers exist and no message has arrived
MsgIdle ==
  /\ managersReady = TRUE
  /\ messages = <<>>

\* No tab has been scored
ScoreIdle ==
  /\ scoreIn = None
  /\ scoreOut = None

\* No entry of the Maps has a string key
NoRestored == [tabActivityTimes |-> <<>>, tabMetadata |-> <<>>]

NoEvents == [activated |-> <<>>, updated |-> <<>>, written |-> {}, removed |-> {}]

\* initialize() has returned and no tab event has arrived
EventIdle ==
  /\ enginePc = "ready"
  /\ restored = NoRestored
  /\ wakes = <<>>
  /\ eventLog = NoEvents

TimerIdle ==
  /\ timerIn = None
  /\ timerOut = None

LateIdle == ScoreIdle /\ EventIdle /\ TimerIdle

AuxIdle ==
  SleepIdle /\ SaveIdle /\ ConfigIdle /\ PrivIdle /\ QueryIdle /\ ApiIdle /\ MsgIdle /\ LateIdle

CycIdle ==
  /\ hostTabs = <<>>
  /\ activeTab = 0
  /\ memSource = [ok |-> FALSE, capacity |-> 0, availableCapacity |-> 0]
  /\ failTab = 0
  /\ tabActivityTimes = <<>>
  /\ tabMetadata = <<>>
  /\ stats = [checksPerformed |-> 0, totalSlept |-> 0, emergencySleeps |-> 0]
  /\ store = [totalTabsSlept |-> 0, lastSleepTime |-> 0]
  /\ cycles = <<>>

\* ---- bounds of the override lists
MaxEntries == 2

Raw(proto, rest) == [proto |-> proto, rest |-> rest]

\* request.domain of addToWhitelist / addToBlacklist / remove...
DomainInputs ==
  { Raw(FALSE, <<"*", ".", "a">>),
    Raw(TRUE, <<"A", ":", "8", "/", "x">>),
    Raw(FALSE, <<>>),
    Raw(FALSE, NullDomain) }

Url(scheme, host) == [scheme |-> scheme, host |-> host]

PolicyUrls ==
  { Url("https", <<"m", ".", "a">>),
    Url("https", <<"a">>),
    Url("https", <<"x", "a">>),
    Url("invalid", <<>>) }

\* data.whitelist / data.blacklist of importRules: absent, a list of
\* domains (stored as given, not normalised), or a value that is no list
ImportLists ==
  { <<>>,
    << <<"M", ".", "a">>, <<"*", ".", "a">> >> }

ImportFields ==
  {[kind |-> "list", list |-> l] : l \in ImportLists}
    \cup {[kind |-> "absent", list |-> <<>>], [kind |-> "malformed", list |-> <<>>]}

\* save(): the lists as they are when it runs
save(wl, bl) == storedLists' = [whitelist |-> wl, blacklist |-> bl]

\* An addToWhitelist that also takes the domain off the deny list
addToWhitelistMoving(raw) ==
  LET domain == normalizeDomain(raw)
  IN /\ IF domain = NullDomain \/ domain = <<>>
        THEN UNCHANGED <<whitelist, blacklist, patterns, storedLists>>
        ELSE /\ Len(SetAdd(whitelist, domain)) <= MaxEntries
             /\ whitelist' = SetAdd(whitelist, domain)
             /\ blacklist' = SetDelete(blacklist, domain)
             /\ patterns' = [whitelist |-> compilePatterns(whitelist'),
                             blacklist |-> compilePatterns(blacklist')]
             /\ save(whitelist', blacklist')
     /\ policyQuery' = None

addToWhitelist(raw) ==
  LET domain == normalizeDomain(raw)
  IN /\ IF domain = NullDomain \/ domain = <<>>
        THEN UNCHANGED <<whitelist, patterns, storedLists>>
        ELSE /\ Len(SetAdd(whitelist, domain)) <= MaxEntries
             /\ whitelist' = SetAdd(whitelist, domain)
             /\ patterns' = [patterns EXCEPT !.whitelist = compilePatterns(whitelist')]
             /\ save(whitelist', blacklist)
     /\ policyQuery' = None
     /\ UNCHANGED blacklist

removeFromWhitelist(raw) ==
  LET domain == normalizeDomain(raw)
  IN /\ IF domain \in Range(whitelist)
        THEN /\ whitelist' = SetDelete(whitelist, domain)
             /\ patterns' = [patterns EXCEPT !.whitelist = compilePatterns(whitelist')]
             /\ save(whitelist', blacklist)
        ELSE UNCHANGED <<whitelist, patterns, storedLists>>
     /\ policyQuery' = None
     /\ UNCHANGED blacklist

addToBlacklist(raw) ==
  LET domain == normalizeDomain(raw)
  IN /\ IF domain = NullDomain \/ domain = <<>>
        THEN UNCHANGED <<blacklist, patterns, storedLists>>
        ELSE /\ Len(SetAdd(blacklist, domain)) <= MaxEntries
             /\ blacklist' = SetAdd(blacklist, domain)
             /\ patterns' = [patterns EXCEPT !.blacklist = compilePatterns(blacklist')]
             /\ save(whitelist, blacklist')
     /\ policyQuery' = None
     /\ UNCHANGED whitelist

removeFromBlacklist(raw) ==
  LET domain == normalizeDomain(raw)
  IN /\ IF domain \in Range(blacklist)
        THEN /\ blacklist' = SetDelete(blacklist, domain)
             /\ patterns' = [patterns EXCEPT !.blacklist = compilePatterns(blacklist')]
             /\ save(whitelist, blacklist')
        ELSE UNCHANGED <<blacklist, patterns, storedLists>>
     /\ policyQuery' = None
     /\ UNCHANGED whitelist

\* new Set filled from a list: duplicates collapse, first occurrence first
RECURSIVE SetFrom(_)
SetFrom(list) ==
  IF list = <<>> THEN <<>>
  ELSE SetAdd(SetFrom(SubSeq(list, 1, Len(list) - 1)), list[Len(list)])

\* importRules(data).  A field that is no list makes forEach throw after
\* the set was cleared: the catch returns false, nothing is compiled and
\* nothing is saved.
importRules(data) ==
  LET wlBad == data.whitelist.kind = "malformed"
      blBad == data.blacklist.kind = "malformed"
      wlAbsent == data.whitelist.kind = "absent"
      blAbsent == data.blacklist.kind = "absent"
      wl == IF wlAbsent THEN whitelist
            ELSE IF wlBad THEN <<>>
            ELSE SetFrom(data.whitelist.list)
      bl == IF wlBad \/ blAbsent THEN blacklist
            ELSE IF blBad THEN <<>>
            ELSE SetFrom(data.blacklist.list)
  IN /\ whitelist' = wl
     /\ blacklist' = bl
     /\ patterns' =
          [whitelist |-> IF wlAbsent \/ wlBad
                         THEN patterns.whitelist ELSE compilePatterns(wl),
           blacklist |-> IF wlBad \/ blAbsent \/ blBad
                         THEN patterns.blacklist ELSE compilePatterns(bl)]
     /\ IF wlBad \/ blBad THEN UNCHANGED storedLists ELSE save(wl, bl)
     /\ policyQuery' = None

clearAll ==
  /\ whitelist' = <<>>
  /\ blacklist' = <<>>
  /\ patterns' = [whitelist |-> <<>>, blacklist |-> <<>>]
  /\ save(<<>>, <<>>)
  /\ policyQuery' = None

\* A caller asks getSleepPriority(url) and canSleep(url)
QueryPolicy(url) ==
  /\ policyQuery' = Some(
       [url |-> url, priority |-> getSleepPriority(url), canSleep |-> canSleep(url)])
  /\ UNCHANGED <<whitelist, blacklist, patterns, storedLists>>

AddToWhitelist == \E raw \in DomainInputs : addToWhitelist(raw) /\ UNCHANGED <<memVars, tierVars, auxVars, cycVars>>

RemoveFromWhitelist == \E raw \in DomainInputs : removeFromWhitelist(raw) /\ UNCHANGED <<memVars, tierVars, auxVars, cycVars>>

AddToBlacklist == \E raw \in DomainInputs : addToBlacklist(raw) /\ UNCHANGED <<memVars, tierVars, auxVars, cycVars>>

RemoveFromBlacklist == \E raw \in DomainInputs : removeFromBlacklist(raw) /\ UNCHANGED <<memVars, tierVars, auxVars, cycVars>>

ImportRules ==
  \E w \in ImportFields, b \in ImportFields :
    importRules([whitelist |-> w, blacklist |-> b]) /\ UNCHANGED <<memVars, tierVars, auxVars, cycVars>>

ClearAll == clearAll /\ UNCHANGED <<memVars, tierVars, auxVars, cycVars>>

Query == \E url \in PolicyUrls : QueryPolicy(url) /\ UNCHANGED <<memVars, tierVars, auxVars, cycVars>>

vars == <<policyVars, memVars, tierVars, auxVars, cycVars>>

PolicyInit == PolicyIdle /\ MemIdle /\ TierIdle /\ CycIdle /\ AuxIdle

PolicyNext ==
  \/ AddToWhitelist
  \/ RemoveFromWhitelist
  \/ AddToBlacklist
  \/ RemoveFromBlacklist
  \/ ImportRules
  \/ ClearAll
  \/ Query

\* The override lists under every sequence of control-surface operations
SpecPolicy == PolicyInit /\ [][PolicyNext]_vars

\* C34: adding or removing a domain in one override set leaves the other
\* set and the other set's compiled patterns unchanged.
C34_OtherSetUntouched ==
  [][/\ (AddToWhitelist \/ RemoveFromWhitelist) =>
          (blacklist' = blacklist /\ patterns'.blacklist = patterns.blacklist)
     /\ (AddToBlacklist \/ RemoveFromBlacklist) =>
          (whitelist' = whitelist /\ patterns'.whitelist = patterns.whitelist)]_vars

C34_Witness ==
  /\ whitelist # <<>>
  /\ Range(whitelist) \cap Range(blacklist) # {}
  /\ Len(blacklist) = MaxEntries
  /\ patterns.whitelist = compilePatterns(whitelist)
  /\ patterns.blacklist = compilePatterns(blacklist)

\* C39: after every call of an operation that edits the override sets,
\* whether it returns or throws, each compiled pattern list holds exactly
\* the matchers of the entries of its set.
C39_PatternsMatchSets ==
  /\ patterns.whitelist = compilePatterns(whitelist)
  /\ patterns.blacklist = compilePatterns(blacklist)

\* What holds: an operation that returns normally and has changed a set
\* leaves the compiled list of that set matching it
C39_CompiledWhenSetEdited ==
  [][/\ ((AddToWhitelist \/ RemoveFromWhitelist \/ ClearAll)
            /\ whitelist' # whitelist) =>
          patterns'.whitelist = compilePatterns(whitelist')
     /\ ((AddToBlacklist \/ RemoveFromBlacklist \/ ClearAll)
            /\ blacklist' # blacklist) =>
          patterns'.blacklist = compilePatterns(blacklist')]_vars

\* C7: whenever the hostname matches an allow entry, getSleepPriority
\* answers 0 and canSleep answers false, also when a deny entry matches
\* too; 2 is answered only when no allow entry matches.
C7_AllowWins ==
  policyQuery # None =>
    LET q == policyQuery[1]
    IN /\ isWhitelisted(q.url) => (q.priority = 0 /\ q.canSleep = "false")
       /\ q.priority = 2 => ~isWhitelisted(q.url)

\* C7 witness: a URL matched by both lists was classified
C7_Witness ==
  /\ policyQuery # None
  /\ isWhitelisted(policyQuery[1].url)
  /\ isBlacklisted(policyQuery[1].url)
  /\ policyQuery[1].priority = 0
  /\ policyQuery[1].canSleep = "false"

(***************************************************************************)
(* Pattern matching on its own: one stored pattern, every hostname         *)
(***************************************************************************)

MaxPatLen == 3
MaxHostLen == 3

\* The characters a stored pattern is made of here, and those of a hostname
PatternChars == {"a", "A", "b", ".", "*", "|"}

HostChars == {"a", "b", "."}

SeqsUpTo(chars, n) == UNION {[1..k -> chars] : k \in 0..n}

MatchInit ==
  /\ \E p \in SeqsUpTo(PatternChars, MaxPatLen) :
       /\ whitelist = <<p>>
       /\ patterns = [whitelist |-> compilePatterns(<<p>>), blacklist |-> <<>>]
       /\ storedLists = [whitelist |-> <<p>>, blacklist |-> <<>>]
  /\ blacklist = <<>>
  /\ policyQuery = None
  /\ MemIdle
  /\ TierIdle
  /\ AuxIdle
  /\ CycIdle

MatchHost ==
  \E h \in SeqsUpTo(HostChars, MaxHostLen) \ {<<>>} :
    QueryPolicy(Url("https", h)) /\ UNCHANGED <<memVars, tierVars, auxVars, cycVars>>

MatchNext == MatchHost

\* One pattern in the allow set (stored as given, as importRules stores
\* it) and the classification of every hostname against it
SpecMatch == MatchInit /\ [][MatchNext]_vars

\* The match the claim describes: the whole hostname against the pattern,
\* "*" an arbitrary run, every other character itself, letters compared
\* case-insensitively
RECURSIVE LiteralGlob(_, _)
LiteralGlob(p, h) ==
  IF p = <<>> THEN h = <<>>
  ELSE IF Head(p) = "*"
       THEN \E k \in 0..Len(h) : LiteralGlob(Tail(p), SubSeq(h, k + 1, Len(h)))
  ELSE /\ h # <<>>
       /\ LowerChar(Head(p)) = LowerChar(Head(h))
       /\ LiteralGlob(Tail(p), Tail(h))

\* C8: a hostname matches a stored pattern exactly when the whole hostname
\* equals the pattern with each * an arbitrary run and every other
\* character, dots included, taken literally.
C8_MatchIsLiteralGlob ==
  policyQuery # None =>
    (isWhitelisted(policyQuery[1].url)
       <=> LiteralGlob(whitelist[1], Hostname(policyQuery[1].url)))

\* The same statement for the patterns made of letters, dots and * only
C8_HoldsWithoutMetacharacters ==
  (policyQuery # None /\ "|" \notin Range(whitelist[1])) =>
    (isWhitelisted(policyQuery[1].url)
       <=> LiteralGlob(whitelist[1], Hostname(policyQuery[1].url)))

(***************************************************************************)
(* ResourceControls.getMemoryInfo                                          *)
(***************************************************************************)

\* Milliseconds in one unit of now
MsPerUnit == 1000

MaxNow == 4

\* Math.round(bytes / (1024 * 1024)), the bytes counted in halves of a MiB
RoundMB(halfMB) == (halfMB + 1) \div 2

\* parseFloat(((usedMB / totalMB) * 100).toFixed(1)), in tenths of a percent
UsagePercent(usedMB, totalMB) == (usedMB * 2000 + totalMB) \div (2 * totalMB)

StatusOfSwapped(usagePercent, cfg) ==
  IF usagePercent > cfg.emergencyThreshold * 10 THEN "critical"
  ELSE IF usagePercent > cfg.warningThreshold * 10 THEN "elevated"
  ELSE IF usagePercent > cfg.optimalThreshold * 10 THEN "warning"
  ELSE "optimal"

\* The status of a reading (usagePercent in tenths of a percent)
StatusOf(usagePercent, cfg) ==
  IF usagePercent > cfg.emergencyThreshold * 10 THEN "critical"
  ELSE IF usagePercent > cfg.warningThreshold * 10 THEN "warning"
  ELSE IF usagePercent > cfg.optimalThreshold * 10 THEN "elevated"
  ELSE "optimal"

\* What chrome.system.memory.getInfo() does when asked: it rejects, or it
\* resolves with capacity and availableCapacity (in halves of a MiB)
SourceFails == [ok |-> FALSE, capacity |-> 0, availableCapacity |-> 0]

SourceGives(capacity, available) ==
  [ok |-> TRUE, capacity |-> capacity, availableCapacity |-> available]

\* The reading built from a resolved source answer
Sample(src, t) ==
  LET totalMB == RoundMB(src.capacity)
      availableMB == RoundMB(src.availableCapacity)
      usedMB == totalMB - availableMB
      usagePercent == UsagePercent(usedMB, totalMB)
  IN [totalMB |-> totalMB, availableMB |-> availableMB, usedMB |-> usedMB,
      usagePercent |-> usagePercent, status |-> StatusOf(usagePercent, config),
      timestamp |-> t, stale |-> FALSE]

\* A cache that is still served at the age of exactly maxCacheAge
CacheFreshInclusive ==
  memoryCache # None /\ (now - memoryCacheTime) * MsPerUnit <= config.maxCacheAge

CacheFresh ==
  memoryCache # None /\ (now - memoryCacheTime) * MsPerUnit < config.maxCacheAge

FabricatedOptimal ==
  [totalMB |-> 0, availableMB |-> 0, usedMB |-> 0, usagePercent |-> 0,
   status |-> "optimal", timestamp |-> now, stale |-> FALSE]

getMemoryInfoReturnFabricating(src) ==
  IF CacheFresh THEN memoryCache
  ELSE IF src.ok THEN Some(Sample(src, now))
  ELSE IF memoryCache # None THEN Some([memoryCache[1] EXCEPT !.stale = TRUE])
  ELSE Some(FabricatedOptimal)

getMemoryInfoReturnUnflagged(src) ==
  IF CacheFresh THEN memoryCache
  ELSE IF src.ok THEN Some(Sample(src, now))
  ELSE IF memoryCache # None THEN memoryCache
  ELSE None

\* What getMemoryInfo returns when the source would answer src
getMemoryInfoReturn(src) ==
  IF CacheFresh THEN memoryCache
  ELSE IF src.ok THEN Some(Sample(src, now))
  ELSE IF memoryCache # None THEN Some([memoryCache[1] EXCEPT !.stale = TRUE])
  ELSE None

\* this.memoryCache and this.memoryCacheTime after that call
getMemoryInfoCache(src) ==
  IF ~CacheFresh /\ src.ok THEN Some(Sample(src, now)) ELSE memoryCache

getMemoryInfoCacheTime(src) ==
  IF ~CacheFresh /\ src.ok THEN now ELSE memoryCacheTime

\* The answers the source gives in the model: 1000 MB of which 500, 600,
\* 601, 700, 701, 850 or 851 MB are used, and 3 MB of which 2 are used
SourceOutcomes ==
  {SourceGives(2000, 2000 - 2 * used) : used \in {500, 600, 601, 700, 701, 850, 851}}
    \cup {SourceGives(6, 2), SourceFails}

\* One getMemoryInfo call, with what it found and what it returned
GetMemoryInfo ==
  /\ \E src \in SourceOutcomes :
       /\ memoryCache' = getMemoryInfoCache(src)
       /\ memoryCacheTime' = getMemoryInfoCacheTime(src)
       /\ memCalls' = Some(
            [returned |-> getMemoryInfoReturn(src),
             sourceAsked |-> ~CacheFresh,
             sourceFailed |-> ~CacheFresh /\ ~src.ok,
             cacheBefore |-> memoryCache,
             cacheTimeBefore |-> memoryCacheTime,
             at |-> now])
  /\ UNCHANGED <<now, config, policyVars, tierVars, auxVars, cycVars>>

\* Time passes
Tick ==
  /\ now < MaxNow
  /\ now' = now + 1
  /\ UNCHANGED <<config, memoryCache, memoryCacheTime, memCalls, policyVars, tierVars, auxVars, cycVars>>

MemInit ==
  /\ now = 0
  /\ config = DefaultConfig
  /\ memoryCache = None
  /\ memoryCacheTime = 0
  /\ memCalls = None
  /\ PolicyIdle
  /\ TierIdle
  /\ AuxIdle
  /\ CycIdle

MemNext == GetMemoryInfo \/ Tick

\* The memory sampler under every sequence of calls, source answers and
\* pauses
SpecMem == MemInit /\ [][MemNext]_vars

Severity(status) ==
  CASE status = "optimal" -> 0
    [] status = "elevated" -> 1
    [] status = "warning" -> 2
    [] status = "critical" -> 3

\* C4: when the source fails on a call made with an empty cache,
\* getMemoryInfo returns null, never a reading, and the cache stays empty.
C4_NoDataIsNull ==
  (memCalls # None /\ memCalls[1].sourceFailed /\ memCalls[1].cacheBefore = None) =>
    /\ memCalls[1].returned = None
    /\ memoryCache = None
    /\ memoryCacheTime = memCalls[1].cacheTimeBefore

\* C4 witness: the source failed on a call made with an empty cache
C4_Witness ==
  /\ memCalls # None
  /\ memCalls[1].sourceFailed
  /\ memCalls[1].cacheBefore = None
  /\ memCalls[1].returned = None

\* C5: when the source fails and a cached reading exists, getMemoryInfo
\* returns the cached reading with stale = true and the cached timestamp;
\* the cache and memoryCacheTime are not modified, so the next call asks
\* the source again.
C5_StaleCopyOfCache ==
  (memCalls # None /\ memCalls[1].sourceFailed /\ memCalls[1].cacheBefore # None) =>
    /\ memCalls[1].returned = Some([memCalls[1].cacheBefore[1] EXCEPT !.stale = TRUE])
    /\ memCalls[1].returned[1].timestamp = memCalls[1].cacheTimeBefore
    /\ memCalls[1].returned[1].timestamp <= memCalls[1].at
    /\ memoryCache = memCalls[1].cacheBefore
    /\ memoryCache[1].stale = FALSE
    /\ memoryCacheTime = memCalls[1].cacheTimeBefore
    /\ ~CacheFresh

\* C5 witness: a stale reading was returned some time after the sample
C5_Witness ==
  /\ memCalls # None
  /\ memCalls[1].sourceFailed
  /\ memCalls[1].returned # None
  /\ memCalls[1].returned[1].stale
  /\ memCalls[1].returned[1].timestamp < memCalls[1].at

\* C9: of two readings taken with the same thresholds, the one with the
\* higher usagePercent has a status at least as severe.
C9_StatusMonotonic ==
  (memCalls # None /\ memCalls[1].sourceAsked /\ ~memCalls[1].sourceFailed
     /\ memCalls[1].cacheBefore # None) =>
    LET r1 == memCalls[1].cacheBefore[1]
        r2 == memCalls[1].returned[1]
    IN /\ r1.usagePercent <= r2.usagePercent
            => Severity(r1.status) <= Severity(r2.status)
       /\ r2.usagePercent <= r1.usagePercent
            => Severity(r2.status) <= Severity(r1.status)

\* C9 witness: two readings of different usage and different status
C9_Witness ==
  /\ memCalls # None
  /\ memCalls[1].sourceAsked
  /\ ~memCalls[1].sourceFailed
  /\ memCalls[1].cacheBefore # None
  /\ memCalls[1].cacheBefore[1].usagePercent < memCalls[1].returned[1].usagePercent
  /\ memCalls[1].cacheBefore[1].status = "elevated"
  /\ memCalls[1].returned[1].status = "warning"

(***************************************************************************)
(* ResourceControls: the snapshot of the open tabs and the sleep score     *)
(***************************************************************************)

\* A tab's URL with what calculateSleepScore's three hostname tests find
\* in it: kinds is a subset of {"important", "social", "news"}
Page(scheme, host, kinds) == [scheme |-> scheme, host |-> host, kinds |-> kinds]

\* An entry of this.tabMetadata (lastSleepTime 0 is null)
Metadata(createdAt, activationCount, lastSleepTime, sleepCount) ==
  [createdAt |-> createdAt, activationCount |-> activationCount,
   lastSleepTime |-> lastSleepTime, sleepCount |-> sleepCount]

\* Seconds from milliseconds
Seconds(ms) == ms \div MsPerUnit

\* The base score and the inactivity, metadata and hostname terms
ScoreTerms(tab, inactiveTime, metadata, t) ==
  LET inactivity ==
        IF inactiveTime > 60 * 60 THEN 30
        ELSE IF inactiveTime > 30 * 60 THEN 20
        ELSE IF inactiveTime > 15 * 60 THEN 10
        ELSE IF inactiveTime > 5 * 60 THEN 5
        ELSE 0
      activation ==
        IF metadata = None THEN 0
        ELSE IF metadata[1].activationCount < 3 THEN 15
        ELSE IF metadata[1].activationCount < 10 THEN 5
        ELSE IF metadata[1].activationCount > 30 THEN -15
        ELSE 0
      recentSleep ==
        IF metadata # None /\ metadata[1].lastSleepTime # 0
             /\ t - metadata[1].lastSleepTime < Seconds(300000)
        THEN -20 ELSE 0
      site ==
        IF ~UrlParses(tab.url) THEN 0
        ELSE (IF "important" \in tab.url.kinds THEN -15 ELSE 0)
             + (IF "social" \in tab.url.kinds THEN 10 ELSE 0)
             + (IF "news" \in tab.url.kinds THEN 5 ELSE 0)
  IN 50 + inactivity + activation + recentSleep + site

calculateSleepScoreUnclamped(tab, inactiveTime, metadata, isActive, isSleeping, t) ==
  IF isActive \/ isSleeping THEN 0
  ELSE ScoreTerms(tab, inactiveTime, metadata, t)

calculateSleepScore(tab, inactiveTime, metadata, isActive, isSleeping, t) ==
  IF isActive \/ isSleeping THEN 0
  ELSE Max(0, Min(100, ScoreTerms(tab, inactiveTime, metadata, t)))

\* One entry of getTabsInfo().tabs, built at time t from the browser's tab i
TabInfo(i, t) ==
  LET isActive == i = activeTab
      isSleeping == hostTabs[i].discarded
      lastActivity == IF tabActivityTimes[i] # 0 THEN tabActivityTimes[i] ELSE t
      inactiveTime == t - lastActivity
      metadata == tabMetadata[i]
  IN [id |-> i, url |-> hostTabs[i].url, isActive |-> isActive,
      isSleeping |-> isSleeping, audible |-> hostTabs[i].audible,
      lastActivity |-> lastActivity, inactiveTime |-> inactiveTime,
      metadata |-> metadata,
      sleepScore |-> calculateSleepScore(hostTabs[i], inactiveTime, metadata,
                                         isActive, isSleeping, t)]

getTabsInfo(t) ==
  [tabs |-> [i \in 1..Len(hostTabs) |-> TabInfo(i, t)], total |-> Len(hostTabs)]

isSystemPage(url) ==
  url.scheme \in {"chrome", "chrome-extension", "edge", "about", "data"}

isValidSleepCandidate(tab) ==
  ~tab.isActive /\ ~tab.isSleeping /\ ~tab.audible /\ ~isSystemPage(tab.url)

\* The steps with the factors of 80 % and 75 % exchanged
TimerTenthsExchanged(usagePercent, cfg) ==
  IF ~cfg.aggressiveMode THEN 10
  ELSE IF usagePercent > 850 THEN 2
  ELSE IF usagePercent > 800 THEN 5
  ELSE IF usagePercent > 750 THEN 3
  ELSE IF usagePercent > 700 THEN 6
  ELSE IF usagePercent > 650 THEN 7
  ELSE IF usagePercent > 600 THEN 8
  ELSE IF usagePercent > 550 THEN 9
  ELSE 10

\* The multiplier of calculateEffectiveSleepTimer, in tenths
TimerTenths(usagePercent, cfg) ==
  IF ~cfg.aggressiveMode THEN 10
  ELSE IF usagePercent > 850 THEN 2
  ELSE IF usagePercent > 800 THEN 3
  ELSE IF usagePercent > 750 THEN 5
  ELSE IF usagePercent > 700 THEN 6
  ELSE IF usagePercent > 650 THEN 7
  ELSE IF usagePercent > 600 THEN 8
  ELSE IF usagePercent > 550 THEN 9
  ELSE 10

\* Math.max(sleepTimer * 60 * 1000, minInactiveTime), in seconds
BaseSleepTimer(cfg) == Max(cfg.sleepTimer * 60, Seconds(cfg.minInactiveTime))

\* In tenths of a second
calculateEffectiveSleepTimer(baseTimer, usagePercent, cfg) ==
  baseTimer * TimerTenths(usagePercent, cfg)

\* effectiveSleepTimer is in tenths of a second, tab.inactiveTime in seconds
shouldTabSleep(tab, effectiveSleepTimer, usagePercent, t) ==
  IF tab.inactiveTime * 10 < effectiveSleepTimer THEN FALSE
  ELSE IF tab.metadata # None /\ t - tab.metadata[1].createdAt < Seconds(180000)
    THEN FALSE
  ELSE IF tab.metadata # None /\ tab.metadata[1].activationCount > 30
    THEN tab.inactiveTime * 10 > effectiveSleepTimer * 2
  ELSE IF tab.metadata # None /\ tab.metadata[1].activationCount > 15
    THEN tab.inactiveTime * 20 > effectiveSleepTimer * 3
  ELSE IF usagePercent > 850 THEN TRUE
  ELSE tab.sleepScore > 60

\* x put into a list sorted by falling score, behind the entries that
\* score as much: Array.prototype.sort is stable
InsertByScore(sorted, x) ==
  LET k == Cardinality({j \in 1..Len(sorted) : sorted[j].sleepScore >= x.sleepScore})
  IN SubSeq(sorted, 1, k) \o <<x>> \o SubSeq(sorted, k + 1, Len(sorted))

\* .sort((a, b) => b.sleepScore - a.sleepScore)
SortByScore(s) ==
  LET F[i \in 0..Len(s)] == IF i = 0 THEN <<>> ELSE InsertByScore(F[i - 1], s[i])
  IN F[Len(s)]

\* Math.ceil(n * tenths / 10)
CeilTenths(n, tenths) == (n * tenths + 9) \div 10

FloorTenths(n, tenths) == (n * tenths) \div 10

TargetCountFloor(status, n) ==
  IF status = "critical" THEN FloorTenths(n, 8)
  ELSE IF status = "warning" THEN FloorTenths(n, 6)
  ELSE IF status = "elevated" THEN FloorTenths(n, 4)
  ELSE FloorTenths(n, 3)

\* targetCount of checkAndSleepTabs for n candidates
TargetCount(status, n) ==
  IF status = "critical" THEN CeilTenths(n, 8)
  ELSE IF status = "warning" THEN CeilTenths(n, 6)
  ELSE IF status = "elevated" THEN CeilTenths(n, 4)
  ELSE CeilTenths(n, 3)

\* candidates of checkAndSleepTabs: the snapshot filtered and sorted
Candidates(tabs, memoryInfo, cfg, t) ==
  LET effectiveSleepTimer ==
        calculateEffectiveSleepTimer(BaseSleepTimer(cfg), memoryInfo.usagePercent, cfg)
      Keep(tab) ==
        /\ isValidSleepCandidate(tab)
        /\ shouldTabSleep(tab, effectiveSleepTimer, memoryInfo.usagePercent, t)
  IN SortByScore(SelectSeq(tabs, Keep))

\* toSleep of checkAndSleepTabs: candidates.slice(0, targetCount)
TieredPass(tabs, memoryInfo, cfg, t) ==
  LET candidates == Candidates(tabs, memoryInfo, cfg, t)
  IN SubSeq(candidates, 1, TargetCount(memoryInfo.status, Len(candidates)))

Ids(tabs) == [i \in 1..Len(tabs) |-> tabs[i].id]

(***************************************************************************)
(* The tiered pass applied to drawn snapshots                              *)
(***************************************************************************)

\* Date.now() in the first state, in seconds
StartTime == 10000

MaxTierTabs == 12

TierSeed(inactive, count, kinds) ==
  [inactive |-> inactive, count |-> count, kinds |-> kinds]

\* Tabs of different scores, one not yet idle for the sleep timer, and one
\* that scores as much as the first after a shorter time of inactivity
TierSeeds ==
  << TierSeed(3700, 1, {}), TierSeed(2000, 1, {}), TierSeed(1000, 5, {}),
     TierSeed(3700, 5, {"social"}), TierSeed(2000, 12, {}), TierSeed(100, 1, {}),
     TierSeed(3650, 1, {}) >>

TierSeedOf(i, offset) == TierSeeds[((i + offset) % Len(TierSeeds)) + 1]

NoStats == [checksPerformed |-> 0, totalSlept |-> 0, emergencySleeps |-> 0]

NoStore == [totalTabsSlept |-> 0, lastSleepTime |-> 0]

TierInit ==
  /\ \E n \in 0..MaxTierTabs, offset \in 0..2, used \in {500, 601, 701, 851} :
       /\ hostTabs = [i \in 1..n |->
            [url |-> Page("https", <<"b">>, TierSeedOf(i, offset).kinds),
             audible |-> FALSE, discarded |-> FALSE]]
       /\ tabActivityTimes = [i \in 1..n |-> StartTime - TierSeedOf(i, offset).inactive]
       /\ tabMetadata = [i \in 1..n |->
            Some(Metadata(StartTime - 4000, TierSeedOf(i, offset).count, 0, 0))]
       /\ memSource = SourceGives(2000, 2000 - 2 * used)
  /\ activeTab = 0
  /\ failTab = 0
  /\ stats = NoStats
  /\ store = NoStore
  /\ cycles = <<>>
  /\ now = StartTime
  /\ config = [DefaultConfig EXCEPT !.autoSleep = TRUE]
  /\ memoryCache = None
  /\ memoryCacheTime = 0
  /\ memCalls = None
  /\ tierIn = None
  /\ tierOut = None
  /\ PolicyIdle
  /\ AuxIdle

\* The snapshot and the reading are taken and the tiered pass picks
ApplyTier ==
  /\ tierIn = None
  /\ LET tabs == getTabsInfo(now).tabs
         memoryInfo == getMemoryInfoReturn(memSource)[1]
     IN /\ tierIn' = Some([tabs |-> tabs, memoryInfo |-> memoryInfo])
        /\ tierOut' = Some(
             [candidates |-> Ids(Candidates(tabs, memoryInfo, config, now)),
              toSleep |-> Ids(TieredPass(tabs, memoryInfo, config, now))])
  /\ memoryCache' = getMemoryInfoCache(memSource)
  /\ memoryCacheTime' = getMemoryInfoCacheTime(memSource)
  /\ UNCHANGED <<now, config, memCalls, policyVars, cycVars, auxVars>>

TierNext == ApplyTier

\* The tiered pass of checkAndSleepTabs on every drawn snapshot and reading
SpecTier == TierInit /\ [][TierNext]_vars

\* The fraction of a status, in tenths
TierTenths(status) ==
  CASE status = "critical" -> 8
    [] status = "warning" -> 6
    [] status = "elevated" -> 4
    [] status = "optimal" -> 3

\* C10: the tiered pass selects exactly the first ceil(f * n) entries of
\* the n eligible tabs sorted by falling score (ties in snapshot order),
\* f being 0.8, 0.6, 0.4, 0.3 at critical, warning, elevated, optimal; no
\* eligible tab outside that prefix is selected.
C10_TierPrefix ==
  tierOut # None =>
    LET tabs == tierIn[1].tabs
        c == tierOut[1].candidates
        s == tierOut[1].toSleep
        n == Len(c)
        f == TierTenths(tierIn[1].memoryInfo.status)
        eligible == {i \in 1..Len(tabs) :
                       tabs[i].inactiveTime >= BaseSleepTimer(config)}
    IN /\ Range(c) = eligible
       /\ \A i, j \in 1..n : i < j =>
            \/ tabs[c[i]].sleepScore > tabs[c[j]].sleepScore
            \/ tabs[c[i]].sleepScore = tabs[c[j]].sleepScore /\ c[i] < c[j]
       /\ Len(s) * 10 >= f * n
       /\ (Len(s) - 1) * 10 < f * n
       /\ Len(s) <= n
       /\ s = SubSeq(c, 1, Len(s))
       /\ \A k \in (Len(s) + 1)..n : c[k] \notin Range(s)

\* C10 witness: ten eligible tabs at critical, eight of them selected
C10_Witness ==
  /\ tierOut # None
  /\ tierIn[1].memoryInfo.status = "critical"
  /\ Len(tierOut[1].candidates) = 10
  /\ Len(tierOut[1].toSleep) = 8
  /\ Len(tierIn[1].tabs) > 10

\* C33: the eligible list handed to the tier cap is ordered by falling
\* score, and of two tabs with the same score the one that has been
\* inactive for longer comes first; the discards are issued in that order.
C33_TiesByLongerInactivity ==
  tierOut # None =>
    LET tabs == tierIn[1].tabs
        c == tierOut[1].candidates
    IN /\ \A j \in 1..(Len(c) - 1) :
            \/ tabs[c[j]].sleepScore > tabs[c[j + 1]].sleepScore
            \/ /\ tabs[c[j]].sleepScore = tabs[c[j + 1]].sleepScore
               /\ tabs[c[j]].inactiveTime >= tabs[c[j + 1]].inactiveTime
       /\ tierOut[1].toSleep = SubSeq(c, 1, Len(tierOut[1].toSleep))

\* What holds: the list is ordered by falling score, and tabs of the same
\* score keep the order of the snapshot
C33_TiesInSnapshotOrder ==
  tierOut # None =>
    LET tabs == tierIn[1].tabs
        c == tierOut[1].candidates
    IN /\ \A j \in 1..(Len(c) - 1) :
            \/ tabs[c[j]].sleepScore > tabs[c[j + 1]].sleepScore
            \/ /\ tabs[c[j]].sleepScore = tabs[c[j + 1]].sleepScore
               /\ c[j] < c[j + 1]
       /\ tierOut[1].toSleep = SubSeq(c, 1, Len(tierOut[1].toSleep))

(***************************************************************************)
(* calculateSleepScore applied to drawn tabs                               *)
(***************************************************************************)

\* Seconds of inactivity around the four steps of the inactivity term
ScoreInactiveTimes == {0, 300, 301, 900, 901, 1800, 1801, 3600, 3601}

\* Activation counts around the three steps of the activation term
ScoreCounts == {2, 3, 9, 10, 30, 31}

\* metadata.lastSleepTime: null, 299 s ago, 300 s ago
ScoreSleepTimes == {0, StartTime - 299, StartTime - 300}

ScoreKinds == SUBSET {"important", "social", "news"}

\* The URLs of the drawn tabs: every outcome of the three hostname tests,
\* and a string new URL() rejects
ScoreUrls ==
  {Page("https", <<"a">>, kinds) : kinds \in ScoreKinds} \cup {Page("invalid", <<>>, {})}

ScoreMetadata ==
  {None} \cup {Some(Metadata(StartTime - 4000, count, lastSleepTime, 0)) :
                 count \in ScoreCounts, lastSleepTime \in ScoreSleepTimes}

ScoreInit ==
  /\ \E url \in ScoreUrls, audible \in BOOLEAN, isActive \in BOOLEAN,
        isSleeping \in BOOLEAN, inactiveTime \in ScoreInactiveTimes,
        metadata \in ScoreMetadata :
       scoreIn = Some([tab |-> [url |-> url, audible |-> audible, discarded |-> isSleeping],
                       inactiveTime |-> inactiveTime, metadata |-> metadata,
                       isActive |-> isActive, isSleeping |-> isSleeping])
  /\ scoreOut = None
  /\ EventIdle
  /\ TimerIdle
  /\ now = StartTime
  /\ config = DefaultConfig
  /\ memoryCache = None
  /\ memoryCacheTime = 0
  /\ memCalls = None
  /\ PolicyIdle
  /\ TierIdle
  /\ CycIdle
  /\ SleepIdle
  /\ SaveIdle
  /\ ConfigIdle
  /\ PrivIdle
  /\ QueryIdle
  /\ ApiIdle
  /\ MsgIdle

\* The call getTabsInfo makes for one tab
ApplyScore ==
  /\ scoreOut = None
  /\ scoreOut' = Some(calculateSleepScore(scoreIn[1].tab, scoreIn[1].inactiveTime,
                                          scoreIn[1].metadata, scoreIn[1].isActive,
                                          scoreIn[1].isSleeping, now))
  /\ UNCHANGED <<scoreIn, eventVars, timerVars, sleepVars, saveVars, storedConfig, privVars,
                 queryVars, apiVars, msgVars, policyVars, memVars, tierVars, cycVars>>

ScoreNext == ApplyScore

\* calculateSleepScore on every drawn tab, inactivity and metadata
SpecScore == ScoreInit /\ [][ScoreNext]_vars

\* What the terms of the score add up to for the drawn tab
ScoreSum ==
  ScoreTerms(scoreIn[1].tab, scoreIn[1].inactiveTime, scoreIn[1].metadata, now)

\* C21: calculateSleepScore returns an integer between 0 and 100 for every
\* inactivity, activation count, last sleep time and kind of URL: the sum
\* of the base 50 and the terms is clamped.
C21_ScoreInRange ==
  scoreOut # None =>
    /\ scoreOut[1] \in 0..100
    /\ (~scoreIn[1].isActive /\ ~scoreIn[1].isSleeping) =>
         /\ ScoreSum \in 0..100 => scoreOut[1] = ScoreSum
         /\ ScoreSum > 100 => scoreOut[1] = 100
         /\ ScoreSum < 0 => scoreOut[1] = 0

\* C21 witness: a tab idle for more than an hour, activated twice, on a
\* social news site: the terms add up to 110 and the score is 100
C21_Witness ==
  /\ scoreOut = Some(100)
  /\ ScoreSum = 110
  /\ scoreIn[1].inactiveTime > 3600
  /\ scoreIn[1].metadata # None

\* C22: a tab that is active, discarded or audible gets score 0, whatever
\* its inactivity, metadata and URL.
C22_NoCandidateScoresZero ==
  (scoreOut # None /\ (scoreIn[1].isActive \/ scoreIn[1].isSleeping
                         \/ scoreIn[1].tab.audible)) =>
    scoreOut[1] = 0

\* What holds of the short circuit: active and discarded tabs get 0
C22_ActiveOrDiscardedScoresZero ==
  (scoreOut # None /\ (scoreIn[1].isActive \/ scoreIn[1].isSleeping)) =>
    scoreOut[1] = 0

(***************************************************************************)
(* The eviction cycles: checkAndSleepTabsWithML of the service worker and  *)
(* ResourceControls.checkAndSleepTabs with its emergencySleep pass.  A     *)
(* cycle is suspended at every await; other cycles run in between.         *)
(***************************************************************************)

MaxCycles == 2

MaxTicks == 1

\* Seconds between two observations of the clock
TickStep == 60

\* A JavaScript number that may be NaN
Number(value) == [nan |-> FALSE, value |-> value]

NaN == [nan |-> TRUE, value |-> 0]

\* a > b for a number a and a possibly-NaN b
GreaterThan(a, b) == ~b.nan /\ a > b.value

\* calculateOptimalSleepTime(data) takes { tab, patterns, baseTime } from
\* its one argument.  Its caller passes the entry of getTabsInfo as that
\* argument (with two more that are dropped), and the entry has none of
\* the three fields: the try block throws on tab.url, the multiplier
\* stays 1.0 and Math.round(undefined * 1.0) is NaN.
calculateOptimalSleepTime(data) ==
  IF "baseTime" \in DOMAIN data THEN Number(data.baseTime) ELSE NaN

MLSkipped(tab) ==
  \/ tab.isActive \/ tab.isSleeping \/ tab.audible
  \/ tab.url.scheme \in {"chrome", "chrome-extension"}

MLSelectsAfterTimer(tab) ==
  /\ ~MLSkipped(tab)
  /\ getSleepPriority(tab.url) # 0
  /\ GreaterThan(tab.inactiveTime, calculateOptimalSleepTime(tab))

\* The body of the selection loop of checkAndSleepTabsWithML: is tab
\* pushed to tabsToSleep
MLSelects(tab) ==
  /\ ~MLSkipped(tab)
  /\ getSleepPriority(tab.url) # 0
  /\ \/ getSleepPriority(tab.url) = 2
     \/ GreaterThan(tab.inactiveTime, calculateOptimalSleepTime(tab))

\* A result without a reason has reason Null, one without checked has -1
Result(slept, reason, checked) ==
  [slept |-> slept, reason |-> reason, checked |-> checked]

NewCycle(kind, pc) ==
  [kind |-> kind, pc |-> pc, snap |-> <<>>, memoryInfo |-> None,
   sampled |-> FALSE, toSleep |-> <<>>, i |-> 1, slept |-> 0, loopNow |-> 0,
   calls |-> <<>>, emergency |-> <<>>, emToSleep |-> 0, emSlept |-> 0,
   read |-> 0, writeAt |-> 0, result |-> None]

Done(cy, result) == [cy EXCEPT !.pc = "done", !.result = Some(result)]

Call(tab, pass, ok) == [tab |-> tab, pass |-> pass, ok |-> ok]

\* chrome.tabs.discard(tab) resolves unless the browser refuses the tab
DiscardOk(tab) == tab # failTab

\* A count that goes up with every attempt
CountedAttempts(sleptCount, ok) == sleptCount + 1

\* sleptCount after one pass through the try block of a discard loop:
\* sleptCount++ is skipped when the awaited discard rejects
Counted(sleptCount, ok) == IF ok THEN sleptCount + 1 ELSE sleptCount

Discarded(tab) ==
  IF DiscardOk(tab) THEN [hostTabs EXCEPT ![tab].discarded = TRUE] ELSE hostTabs

\* ---- checkAndSleepTabsWithML

\* After the discard loop: storage is read when something was discarded
MLAfterLoop(cy) ==
  IF cy.slept > 0 THEN [cy EXCEPT !.pc = "statsGet"]
  ELSE Done(cy, Result(cy.slept, Null, Len(cy.snap)))

\* The call, up to await getTabsInfo()
StartML ==
  /\ Len(cycles) < MaxCycles
  /\ cycles' = Append(cycles,
       IF ~config.autoSleep
       THEN Done(NewCycle("ml", "done"), Result(0, "Auto sleep disabled", -1))
       ELSE NewCycle("ml", "tabs"))
  /\ UNCHANGED <<policyVars, memVars, tierVars, auxVars, hostVars, trackVars>>

\* getTabsInfo() resolves; up to await getMemoryInfo()
MLGetTabsInfo ==
  \E c \in 1..Len(cycles) :
  /\ cycles[c].kind = "ml" /\ cycles[c].pc = "tabs"
  /\ cycles' = [cycles EXCEPT ![c] =
       [@ EXCEPT !.snap = getTabsInfo(now).tabs, !.pc = "memory"]]
  /\ UNCHANGED <<policyVars, memVars, tierVars, auxVars, hostVars, trackVars>>

\* getMemoryInfo() resolves; the selection loop; up to the first discard
MLGetMemoryInfo ==
  \E c \in 1..Len(cycles) :
  /\ cycles[c].kind = "ml" /\ cycles[c].pc = "memory"
  /\ memoryCache' = getMemoryInfoCache(memSource)
  /\ memoryCacheTime' = getMemoryInfoCacheTime(memSource)
  /\ LET cy == [cycles[c] EXCEPT
                  !.memoryInfo = getMemoryInfoReturn(memSource),
                  !.sampled = TRUE,
                  !.toSleep = Ids(SelectSeq(cycles[c].snap, MLSelects)),
                  !.pc = "discard"]
     IN cycles' = [cycles EXCEPT ![c] =
                     IF cy.toSleep = <<>> THEN MLAfterLoop(cy) ELSE cy]
  /\ UNCHANGED <<now, config, memCalls, policyVars, tierVars, auxVars, hostVars, trackVars>>

\* One chrome.tabs.discard of the loop settles
MLDiscard ==
  \E c \in 1..Len(cycles) :
  /\ cycles[c].kind = "ml" /\ cycles[c].pc = "discard"
  /\ LET tab == cycles[c].toSleep[cycles[c].i]
         cy == [cycles[c] EXCEPT
                  !.calls = Append(@, Call(tab, "policy", DiscardOk(tab))),
                  !.slept = Counted(@, DiscardOk(tab)),
                  !.i = @ + 1]
     IN /\ hostTabs' = Discarded(tab)
        /\ cycles' = [cycles EXCEPT ![c] =
                        IF cy.i > Len(cy.toSleep) THEN MLAfterLoop(cy) ELSE cy]
  /\ UNCHANGED <<policyVars, memVars, tierVars, auxVars, activeTab, memSource, failTab, trackVars>>

\* chrome.storage.local.get(['totalTabsSlept']) resolves
MLStatsGet ==
  \E c \in 1..Len(cycles) :
  /\ cycles[c].kind = "ml" /\ cycles[c].pc = "statsGet"
  /\ cycles' = [cycles EXCEPT ![c] =
       [@ EXCEPT !.read = store.totalTabsSlept, !.writeAt = now, !.pc = "statsSet"]]
  /\ UNCHANGED <<policyVars, memVars, tierVars, auxVars, hostVars, trackVars>>

\* chrome.storage.local.set(...) resolves and the cycle returns
MLStatsSet ==
  \E c \in 1..Len(cycles) :
  /\ cycles[c].kind = "ml" /\ cycles[c].pc = "statsSet"
  /\ store' = [totalTabsSlept |-> cycles[c].read + cycles[c].slept,
               lastSleepTime |-> cycles[c].writeAt]
  /\ cycles' = [cycles EXCEPT ![c] =
       Done(@, Result(@.slept, Null, Len(@.snap)))]
  /\ UNCHANGED <<policyVars, memVars, tierVars, auxVars, hostVars,
                 tabActivityTimes, tabMetadata, stats>>

\* ---- ResourceControls.checkAndSleepTabs

\* The return of checkAndSleepTabs (checksPerformed % 10 === 0 also writes
\* this.stats to the key 'stats', which nothing here reads)
RCReturn(cy) == Done(cy, Result(cy.slept, Null, Len(cy.snap)))

\* After the emergency pass: updateStats when something was discarded
RCAfterEmergency(cy) ==
  LET cy2 == [cy EXCEPT !.slept = @ + cy.emSlept]
  IN IF cy2.slept > 0 THEN [cy2 EXCEPT !.pc = "statsGet"] ELSE RCReturn(cy2)

\* candidates of emergencySleep
EmergencyCandidates(tabs) == SortByScore(SelectSeq(tabs, isValidSleepCandidate))

\* toSleep of emergencySleep, and the bound of its loop
EmergencyToSleep(n, alreadySlept) == Max(0, CeilTenths(n, 7) - alreadySlept)

\* After the tiered loop: emergencySleep(tabsInfo.tabs, sleptCount) up to
\* its first discard when the mode is aggressive and the status critical
RCAfterTiered(cy) ==
  IF config.aggressiveMode /\ cy.memoryInfo[1].status = "critical"
  THEN LET candidates == Ids(EmergencyCandidates(cy.snap))
           toSleep == EmergencyToSleep(Len(candidates), cy.slept)
           cy2 == [cy EXCEPT !.emergency = candidates, !.emToSleep = toSleep,
                             !.pc = "emergency", !.i = 1]
       IN IF toSleep > 0 /\ Len(candidates) > 0 THEN cy2 ELSE RCAfterEmergency(cy2)
  ELSE RCAfterEmergency(cy)

\* The call, up to await Promise.all([getMemoryInfo(), getTabsInfo()])
StartRC ==
  /\ Len(cycles) < MaxCycles
  /\ IF ~config.autoSleep
     THEN /\ cycles' = Append(cycles,
               Done(NewCycle("rc", "done"), Result(0, "Auto sleep disabled", -1)))
          /\ stats' = stats
     ELSE /\ cycles' = Append(cycles, NewCycle("rc", "sample"))
          /\ stats' = [stats EXCEPT !.checksPerformed = @ + 1]
  /\ UNCHANGED <<policyVars, memVars, tierVars, auxVars, hostVars,
                 tabActivityTimes, tabMetadata, store>>

\* Both promises resolve; the tiered selection; up to the first discard
RCSample ==
  \E c \in 1..Len(cycles) :
  /\ cycles[c].kind = "rc" /\ cycles[c].pc = "sample"
  /\ memoryCache' = getMemoryInfoCache(memSource)
  /\ memoryCacheTime' = getMemoryInfoCacheTime(memSource)
  /\ LET memoryInfo == getMemoryInfoReturn(memSource)
         tabs == getTabsInfo(now).tabs
         cy == [cycles[c] EXCEPT !.memoryInfo = memoryInfo, !.sampled = TRUE,
                                 !.snap = tabs]
     IN cycles' = [cycles EXCEPT ![c] =
          IF memoryInfo = None THEN Done(cy, Result(0, "No memory info", -1))
          ELSE LET cy2 == [cy EXCEPT
                             !.toSleep = Ids(TieredPass(tabs, memoryInfo[1], config, now)),
                             !.loopNow = now, !.pc = "discard"]
               IN IF cy2.toSleep = <<>> THEN RCAfterTiered(cy2) ELSE cy2]
  /\ UNCHANGED <<now, config, memCalls, policyVars, tierVars, auxVars, hostVars, trackVars>>

\* One chrome.tabs.discard of the tiered loop settles
RCDiscard ==
  \E c \in 1..Len(cycles) :
  /\ cycles[c].kind = "rc" /\ cycles[c].pc = "discard"
  /\ LET tab == cycles[c].toSleep[cycles[c].i]
         cy == [cycles[c] EXCEPT
                  !.calls = Append(@, Call(tab, "tiered", DiscardOk(tab))),
                  !.slept = Counted(@, DiscardOk(tab)),
                  !.i = @ + 1]
     IN /\ hostTabs' = Discarded(tab)
        /\ tabMetadata' =
             IF DiscardOk(tab) /\ tabMetadata[tab] # None
             THEN [tabMetadata EXCEPT ![tab] =
                     Some([@[1] EXCEPT !.lastSleepTime = cycles[c].loopNow,
                                       !.sleepCount = @ + 1])]
             ELSE tabMetadata
        /\ cycles' = [cycles EXCEPT ![c] =
                        IF cy.i > Len(cy.toSleep) THEN RCAfterTiered(cy) ELSE cy]
  /\ UNCHANGED <<policyVars, memVars, tierVars, auxVars, activeTab, memSource, failTab,
                 tabActivityTimes, stats, store>>

\* One chrome.tabs.discard of emergencySleep settles
RCEmergency ==
  \E c \in 1..Len(cycles) :
  /\ cycles[c].kind = "rc" /\ cycles[c].pc = "emergency"
  /\ LET tab == cycles[c].emergency[cycles[c].i]
         cy == [cycles[c] EXCEPT
                  !.calls = Append(@, Call(tab, "emergency", DiscardOk(tab))),
                  !.emSlept = Counted(@, DiscardOk(tab)),
                  !.i = @ + 1]
         last == cy.i > cy.emToSleep \/ cy.i > Len(cy.emergency)
     IN /\ hostTabs' = Discarded(tab)
        /\ cycles' = [cycles EXCEPT ![c] = IF last THEN RCAfterEmergency(cy) ELSE cy]
        /\ stats' = IF last /\ cy.emSlept > 0
                    THEN [stats EXCEPT !.emergencySleeps = @ + 1] ELSE stats
  /\ UNCHANGED <<policyVars, memVars, tierVars, auxVars, activeTab, memSource, failTab,
                 tabActivityTimes, tabMetadata, store>>

\* updateStats: chrome.storage.local.get(['totalTabsSlept']) resolves
RCStatsGet ==
  \E c \in 1..Len(cycles) :
  /\ cycles[c].kind = "rc" /\ cycles[c].pc = "statsGet"
  /\ cycles' = [cycles EXCEPT ![c] =
       [@ EXCEPT !.read = store.totalTabsSlept, !.writeAt = now, !.pc = "statsSet"]]
  /\ stats' = [stats EXCEPT !.totalSlept = store.totalTabsSlept + cycles[c].slept]
  /\ UNCHANGED <<policyVars, memVars, tierVars, auxVars, hostVars,
                 tabActivityTimes, tabMetadata, store>>

\* updateStats: chrome.storage.local.set(...) resolves; the cycle returns
RCStatsSet ==
  \E c \in 1..Len(cycles) :
  /\ cycles[c].kind = "rc" /\ cycles[c].pc = "statsSet"
  /\ store' = [totalTabsSlept |-> cycles[c].read + cycles[c].slept,
               lastSleepTime |-> cycles[c].writeAt]
  /\ cycles' = [cycles EXCEPT ![c] = RCReturn(@)]
  /\ UNCHANGED <<policyVars, memVars, tierVars, auxVars, hostVars,
                 tabActivityTimes, tabMetadata, stats>>

\* Time passes between two steps
CycleTick ==
  /\ now < StartTime + MaxTicks * TickStep
  /\ now' = now + TickStep
  /\ UNCHANGED <<config, memoryCache, memoryCacheTime, memCalls,
                 policyVars, tierVars, auxVars, cycVars>>

\* ---- the browser and the settings a cycle may find

\* A tab as the first state has it: idle for `inactive` seconds, created
\* `age` seconds ago, activated `count` times; flags says whether it is
\* audible, discarded, the active tab, refused by chrome.tabs.discard
Seed(url, flags, inactive, age, count) ==
  [url |-> url, flags |-> flags, inactive |-> inactive, age |-> age, count |-> count]

PageMA == Page("https", <<"m", ".", "a">>, {})

PageB == Page("https", <<"b">>, {"social"})

PageA == Page("https", <<"a">>, {"important"})

PageSettings == Page("chrome", <<"s">>, {})

PageEdge == Page("edge", <<"s">>, {})

\* What tab 1, tab 2 and tab 3 may be
TabSeeds ==
  << { Seed(PageMA, {}, 3700, 4000, 1),
       Seed(PageMA, {"audible"}, 3700, 4000, 1) },
     { Seed(PageB, {}, 3700, 4000, 5),
       Seed(PageB, {"refused"}, 3700, 4000, 5),
       Seed(PageB, {}, 150, 150, 1) },
     { Seed(PageA, {}, 3700, 4000, 1),
       Seed(PageA, {}, 3700, 4000, 35),
       Seed(PageA, {"discarded"}, 3700, 4000, 1),
       Seed(PageA, {"active"}, 0, 4000, 20),
       Seed(PageSettings, {}, 3700, 4000, 1),
       Seed(PageEdge, {}, 3700, 4000, 1) } >>

\* The tab of seeds that has the flag, 0 when none has
Flagged(seeds, flag) ==
  IF \E i \in 1..Len(seeds) : flag \in seeds[i].flags
  THEN CHOOSE i \in 1..Len(seeds) : flag \in seeds[i].flags
  ELSE 0

NumTabs == Len(TabSeeds)

\* The override lists a cycle may find: none; m.a allowed and b denied;
\* m.a allowed and everything denied
ListSeeds ==
  { [whitelist |-> <<>>, blacklist |-> <<>>],
    [whitelist |-> << <<"*", ".", "a">> >>, blacklist |-> << <<"b">> >>],
    [whitelist |-> << <<"m", ".", "a">> >>, blacklist |-> << <<"*">> >>] }

\* The memory source fails, or reports 50.0 % or 85.1 % in use
MemorySeeds ==
  {SourceFails, SourceGives(2000, 1000), SourceGives(2000, 298)}

CycInit ==
  /\ \E seeds \in [1..NumTabs -> UNION Range(TabSeeds)] :
       /\ \A i \in 1..NumTabs : seeds[i] \in TabSeeds[i]
       /\ hostTabs = [i \in 1..NumTabs |->
            [url |-> seeds[i].url, audible |-> "audible" \in seeds[i].flags,
             discarded |-> "discarded" \in seeds[i].flags]]
       /\ tabActivityTimes = [i \in 1..NumTabs |-> StartTime - seeds[i].inactive]
       /\ tabMetadata = [i \in 1..NumTabs |->
            Some(Metadata(StartTime - seeds[i].age, seeds[i].count, 0, 0))]
       /\ activeTab = Flagged(seeds, "active")
       /\ failTab = Flagged(seeds, "refused")
  /\ memSource \in MemorySeeds
  /\ \E lists \in ListSeeds :
       /\ whitelist = lists.whitelist
       /\ blacklist = lists.blacklist
       /\ patterns = [whitelist |-> compilePatterns(lists.whitelist),
                      blacklist |-> compilePatterns(lists.blacklist)]
       /\ storedLists = lists
  /\ policyQuery = None
  /\ \E autoSleep \in BOOLEAN, aggressiveMode \in BOOLEAN :
       config = [DefaultConfig EXCEPT !.autoSleep = autoSleep,
                                      !.aggressiveMode = aggressiveMode]
  /\ now = StartTime
  /\ memoryCache = None
  /\ memoryCacheTime = 0
  /\ memCalls = None
  /\ stats = NoStats
  /\ store = NoStore
  /\ cycles = <<>>
  /\ TierIdle
  /\ AuxIdle

CycNext ==
  \/ StartML
  \/ StartRC
  \/ CycleTick
  \/ MLGetTabsInfo
  \/ MLGetMemoryInfo
  \/ MLDiscard
  \/ MLStatsGet
  \/ MLStatsSet
  \/ RCSample
  \/ RCDiscard
  \/ RCEmergency
  \/ RCStatsGet
  \/ RCStatsSet

\* The eviction cycles under every interleaving of their steps, for every
\* drawn browser, override lists and settings
SpecCycle == CycInit /\ [][CycNext]_vars

\* The tabs a cycle has passed to chrome.tabs.discard
DiscardCalls(c) == {cycles[c].calls[k].tab : k \in 1..Len(cycles[c].calls)}

InFlight == {c \in 1..Len(cycles) : cycles[c].pc # "done"}

\* The largest multiplier calculateOptimalSleepTime can reach for a
\* snapshot of NumTabs tabs, in hundredths: 1.8 (work) x 1.4 (activated
\* more than 15 times) x 1.5 (created in the last 10 minutes); the factors
\* of a domain open in more than 5 tabs and of an hour with more than 3
\* tabs need more tabs
MaxMultiplierHundredths == 378

\* The ML cycles whose discard loop has ended
MLPastLoop ==
  {c \in 1..Len(cycles) :
     /\ cycles[c].kind = "ml"
     /\ cycles[c].sampled
     /\ cycles[c].pc \in {"statsGet", "statsSet", "done"}}

\* C37: in a cycle of checkAndSleepTabsWithML the threshold of a
\* normal-policy tab is the configured sleep timer times a positive
\* multiplier, and a normal-policy tab that is not active, audible,
\* discarded or a system page and has been inactive for longer than that
\* threshold is discarded in that cycle; so with autoSleep on a tab left
\* idle is eventually suspended.
C37_IdleNormalTabDiscarded ==
  \A c \in MLPastLoop : \A i \in 1..Len(cycles[c].snap) :
    LET tab == cycles[c].snap[i]
    IN (/\ ~MLSkipped(tab)
        /\ getSleepPriority(tab.url) = 1
        /\ tab.inactiveTime * 100 > config.sleepTimer * 60 * MaxMultiplierHundredths) =>
         tab.id \in DiscardCalls(c)

\* What holds: checkAndSleepTabsWithML discards deny-listed tabs only
C37_OnlyDenyListedDiscarded ==
  \A c \in 1..Len(cycles) :
    cycles[c].kind = "ml" =>
      \A tab \in DiscardCalls(c) : getSleepPriority(hostTabs[tab].url) = 2

\* The slept counts of the cycles that have returned, added up
SleptReported ==
  LET F[c \in 0..Len(cycles)] ==
        IF c = 0 THEN 0
        ELSE F[c - 1] + (IF cycles[c].pc = "done" THEN cycles[c].result[1].slept ELSE 0)
  IN F[Len(cycles)]

\* C38: under every interleaving of cycles the stored totalTabsSlept is
\* the sum of the slept counts the completed cycles reported: the
\* read-add-write of the counter loses no update.
C38_NoLostUpdate == store.totalTabsSlept = SleptReported

\* What holds: the counter never exceeds the sum, and it is the sum while
\* only one cycle has been started
C38_ExactWithoutOverlap ==
  /\ store.totalTabsSlept <= SleptReported
  /\ Len(cycles) <= 1 => store.totalTabsSlept = SleptReported

\* C1: no cycle of any kind passes a tab whose URL classifies as never
\* (allow-listed, priority 0) to discard.
C1_NeverPolicyNeverDiscarded ==
  \A c \in 1..Len(cycles) : \A tab \in DiscardCalls(c) :
    getSleepPriority(hostTabs[tab].url) # 0

\* C2: at most one eviction cycle is in flight at any time.
C2_OneCycleInFlight == Cardinality(InFlight) <= 1

\* C3: a cycle that obtained no memory reading makes no discard call and
\* returns zero discards with a reason.
C3_NoReadingNoDiscard ==
  \A c \in 1..Len(cycles) :
    (cycles[c].sampled /\ cycles[c].memoryInfo = None) =>
      /\ cycles[c].calls = <<>>
      /\ cycles[c].pc = "done"
      /\ cycles[c].result[1].slept = 0
      /\ cycles[c].result[1].reason # Null

\* The tabs of a snapshot that are deny-listed and not allow-listed, not
\* active, audible, discarded or system pages, and idle for the base timer
EagerDue(snap) ==
  {i \in 1..Len(snap) :
     /\ getSleepPriority(snap[i].url) = 2
     /\ isValidSleepCandidate(snap[i])
     /\ snap[i].inactiveTime >= config.sleepTimer * 60}

SnapOf(c, tab) == cycles[c].snap[tab]

\* Date.now() when getTabsInfo built the entry
SnapTime(entry) == entry.lastActivity + entry.inactiveTime

\* The tabs of a cycle's snapshot that emergencySleep counts
NonProtected(c) ==
  {i \in 1..Len(cycles[c].snap) : isValidSleepCandidate(cycles[c].snap[i])}

\* C23: within one cycle no tab id is passed to chrome.tabs.discard more
\* than once: the emergency pass skips the tabs the tiered pass of the
\* same cycle has discarded.
C23_NoTabDiscardedTwice ==
  \A c \in 1..Len(cycles) :
    \A j, k \in 1..Len(cycles[c].calls) :
      j # k => cycles[c].calls[j].tab # cycles[c].calls[k].tab

\* C24: with aggressive mode on, status critical and every discard call
\* successful, a finished cycle has discarded at least ceil(0.7 * N)
\* different tabs, N being the tabs of the snapshot that are not active,
\* audible, discarded or system pages.
C24_EmergencyReachesTarget ==
  \A c \in 1..Len(cycles) :
    ( /\ cycles[c].kind = "rc"
      /\ cycles[c].pc = "done"
      /\ config.aggressiveMode
      /\ cycles[c].memoryInfo # None
      /\ cycles[c].memoryInfo[1].status = "critical"
      /\ \A k \in 1..Len(cycles[c].calls) : cycles[c].calls[k].ok ) =>
    Cardinality(DiscardCalls(c)) >= CeilTenths(Cardinality(NonProtected(c)), 7)

\* C25: no cycle of any kind passes to discard a tab that its own
\* snapshot shows as active, audible, discarded or a system page
\* (chrome://, chrome-extension://, edge://, about:, data:).
C25_OnlyCandidatesDiscarded ==
  \A c \in 1..Len(cycles) : \A tab \in DiscardCalls(c) :
    isValidSleepCandidate(SnapOf(c, tab))

\* What holds of every cycle: the tab is not active, audible or discarded
\* in the snapshot, and is no chrome:// or chrome-extension:// page
C25_FlagsAndChromePagesKept ==
  \A c \in 1..Len(cycles) : \A tab \in DiscardCalls(c) :
    ~MLSkipped(SnapOf(c, tab))

\* C26: no cycle discards a tab whose metadata was created less than 180 s
\* before the cycle took its snapshot, be it a normal tab, a deny-listed
\* tab or a tab of the emergency pass.
C26_GracePeriodKept ==
  \A c \in 1..Len(cycles) : \A tab \in DiscardCalls(c) :
    LET entry == SnapOf(c, tab)
    IN entry.metadata # None =>
         SnapTime(entry) - entry.metadata[1].createdAt >= Seconds(180000)

\* What holds: the tiered pass keeps the grace period
C26_TieredPassKeepsGrace ==
  \A c \in 1..Len(cycles) : \A k \in 1..Len(cycles[c].calls) :
    LET entry == SnapOf(c, cycles[c].calls[k].tab)
    IN (cycles[c].calls[k].pass = "tiered" /\ entry.metadata # None) =>
         SnapTime(entry) - entry.metadata[1].createdAt >= Seconds(180000)

\* The call a step adds to cycle c, if it adds one
CallAdded(c) ==
  IF c <= Len(cycles) /\ Len(cycles'[c].calls) = Len(cycles[c].calls) + 1
  THEN Some(cycles'[c].calls[Len(cycles'[c].calls)])
  ELSE None

\* C27: after every successful discard of a cycle of any kind the tab's
\* metadata has sleepCount one higher and lastSleepTime set to the time
\* of that cycle.
C27_DiscardRecorded ==
  [][\A c \in 1..Len(cycles') :
       LET call == CallAdded(c)
       IN (call # None /\ call[1].ok /\ tabMetadata[call[1].tab] # None) =>
            /\ tabMetadata'[call[1].tab] # None
            /\ tabMetadata'[call[1].tab][1].sleepCount =
                 tabMetadata[call[1].tab][1].sleepCount + 1
            /\ tabMetadata'[call[1].tab][1].lastSleepTime \in
                 {SnapTime(SnapOf(c, call[1].tab)), now}]_vars

\* What holds: the tiered pass records its successful discards
C27_TieredDiscardRecorded ==
  [][\A c \in 1..Len(cycles') :
       LET call == CallAdded(c)
       IN (call # None /\ call[1].ok /\ call[1].pass = "tiered"
             /\ tabMetadata[call[1].tab] # None) =>
            /\ tabMetadata'[call[1].tab][1].sleepCount =
                 tabMetadata[call[1].tab][1].sleepCount + 1
            /\ tabMetadata'[call[1].tab][1].lastSleepTime = cycles[c].loopNow]_vars

(***************************************************************************)
(* shouldTabSleep applied to drawn tabs                                    *)
(***************************************************************************)

\* Seconds of inactivity around 1x, 1.5x and 2x a timer of 5 and of 10 minutes
SleepInactiveTimes ==
  {299, 300, 449, 450, 451, 599, 600, 601, 899, 900, 901, 1199, 1200, 1201}

SleepInit ==
  /\ \E inactive \in SleepInactiveTimes, count \in {15, 16, 30, 31, 35},
        score \in {60, 61}, usage \in {500, 851} :
       sleepIn = Some(
         [tab |-> [inactiveTime |-> inactive,
                   metadata |-> Some(Metadata(StartTime - 4000, count, 0, 0)),
                   sleepScore |-> score],
          usagePercent |-> usage])
  /\ sleepOut = None
  /\ \E sleepTimer \in {5, 10} :
       config = [DefaultConfig EXCEPT !.autoSleep = TRUE, !.sleepTimer = sleepTimer]
  /\ now = StartTime
  /\ memoryCache = None
  /\ memoryCacheTime = 0
  /\ memCalls = None
  /\ PolicyIdle
  /\ TierIdle
  /\ CycIdle
  /\ SaveIdle
  /\ ConfigIdle
  /\ PrivIdle
  /\ QueryIdle
  /\ ApiIdle
  /\ MsgIdle
  /\ LateIdle

\* The timer checkAndSleepTabs hands to shouldTabSleep, in tenths of a second
SleepTimerOf(usagePercent) ==
  calculateEffectiveSleepTimer(BaseSleepTimer(config), usagePercent, config)

ApplySleep ==
  /\ sleepOut = None
  /\ sleepOut' = Some(shouldTabSleep(sleepIn[1].tab,
                                     SleepTimerOf(sleepIn[1].usagePercent),
                                     sleepIn[1].usagePercent, now))
  /\ UNCHANGED <<sleepIn, saveVars, storedConfig, privVars, queryVars, apiVars, msgVars, lateVars, policyVars, memVars, tierVars, cycVars>>

SleepNext == ApplySleep

\* shouldTabSleep on every drawn tab, reading and sleep timer
SpecSleep == SleepInit /\ [][SleepNext]_vars

\* C11: a tab activated more than 30 times is eligible exactly when its
\* inactive time is at least twice the effective timer, and one activated
\* more than 15 times exactly when it is at least 1.5 times the timer.
C11_FrequentUseAtLeast ==
  sleepOut # None =>
    LET tab == sleepIn[1].tab
        count == tab.metadata[1].activationCount
        timer == SleepTimerOf(sleepIn[1].usagePercent)
    IN /\ count > 30 => (sleepOut[1] <=> tab.inactiveTime * 10 >= timer * 2)
       /\ (count > 15 /\ count <= 30) =>
            (sleepOut[1] <=> tab.inactiveTime * 20 >= timer * 3)

(***************************************************************************)
(* calculateEffectiveSleepTimer applied to drawn readings                  *)
(***************************************************************************)

\* usagePercent in tenths of a percent, on both sides of every step
TimerUsages ==
  {0, 550, 551, 600, 601, 650, 651, 700, 701, 750, 751, 800, 801, 850, 851, 1000}

\* config.sleepTimer in minutes: below minInactiveTime, the bounds, the default
TimerSleepTimers == {0, 1, 10, 60}

TimerInit ==
  /\ \E lower \in TimerUsages, higher \in TimerUsages :
       timerIn = Some([lower |-> lower, higher |-> higher])
  /\ timerOut = None
  /\ \E sleepTimer \in TimerSleepTimers, aggressiveMode \in BOOLEAN :
       config = [DefaultConfig EXCEPT !.autoSleep = TRUE, !.sleepTimer = sleepTimer,
                                      !.aggressiveMode = aggressiveMode]
  /\ now = StartTime
  /\ memoryCache = None
  /\ memoryCacheTime = 0
  /\ memCalls = None
  /\ PolicyIdle
  /\ TierIdle
  /\ CycIdle
  /\ SleepIdle
  /\ SaveIdle
  /\ ConfigIdle
  /\ PrivIdle
  /\ QueryIdle
  /\ ApiIdle
  /\ MsgIdle
  /\ ScoreIdle
  /\ EventIdle

\* The function called as checkAndSleepTabs calls it, for two readings
ApplyTimer ==
  /\ timerOut = None
  /\ timerOut' = Some(
       [lower |-> calculateEffectiveSleepTimer(BaseSleepTimer(config),
                                               timerIn[1].lower, config),
        higher |-> calculateEffectiveSleepTimer(BaseSleepTimer(config),
                                                timerIn[1].higher, config)])
  /\ UNCHANGED <<timerIn, scoreVars, eventVars, sleepVars, saveVars, storedConfig,
                 privVars, queryVars, apiVars, msgVars, policyVars, memVars,
                 tierVars, cycVars>>

TimerNext == ApplyTimer

\* calculateEffectiveSleepTimer on every drawn pair of readings
SpecTimer == TimerInit /\ [][TimerNext]_vars

\* C32: calculateEffectiveSleepTimer returns the base timer when aggressive
\* mode is off; when it is on the result never exceeds the base timer and
\* does not grow with usagePercent.
C32_TimerShrinksWithUsage ==
  timerOut # None =>
    /\ ~config.aggressiveMode =>
         /\ timerOut[1].lower = BaseSleepTimer(config) * 10
         /\ timerOut[1].higher = BaseSleepTimer(config) * 10
    /\ timerOut[1].lower <= BaseSleepTimer(config) * 10
    /\ timerOut[1].higher <= BaseSleepTimer(config) * 10
    /\ timerIn[1].lower <= timerIn[1].higher =>
         timerOut[1].higher <= timerOut[1].lower

C32_Witness ==
  /\ timerOut # None
  /\ config.aggressiveMode
  /\ timerIn[1].lower = 800
  /\ timerIn[1].higher = 801
  /\ timerOut[1].higher < timerOut[1].lower
  /\ timerOut[1].lower < BaseSleepTimer(config) * 10

(***************************************************************************)
(* ResourceControls: updateTabActivity and the debounced saveTabData       *)
(***************************************************************************)

MaxSaveCalls == 5

\* Milliseconds the model follows the clock for
MaxClockMs == 3000

\* The delay of the save timer
SaveDelay == 1000

\* Milliseconds between two observations of the clock
ClockStep == SaveDelay \div 2

TrackedTabs == 1..2

\* setTimeout(save, 1000) after clearTimeout(this.saveTimeout): the pending
\* timers and this.saveTimeout afterwards
saveTabDataTimersKeeping ==
  timers \cup {[id |-> timerIds + 1, left |-> SaveDelay]}

saveTabDataTimers ==
  {t \in timers : t.id # saveTimeout} \cup {[id |-> timerIds + 1, left |-> SaveDelay]}

\* saveTabData: the pending timer is cancelled and a new one is started
saveTabData ==
  /\ timers' = saveTabDataTimers
  /\ saveTimeout' = timerIds + 1
  /\ timerIds' = timerIds + 1
  /\ saveLog' = [saveLog EXCEPT
       !.calls = @ + 1,
       !.bursts = IF saveLog.calls = 0 \/ saveLog.sinceCall >= SaveDelay
                  THEN @ + 1 ELSE @,
       !.sinceCall = 0]

\* A timer that is due runs before the next event
NoTimerDue == \A t \in timers : t.left > 0

\* updateTabActivity(tabId): the two Maps and the debounced save
updateTabActivity(tabId) ==
  /\ tabActivityTimes' = [tabActivityTimes EXCEPT ![tabId] = now]
  /\ tabMetadata' = [tabMetadata EXCEPT ![tabId] =
       LET metadata == IF @ = None THEN Metadata(now, 0, 0, 0) ELSE @[1]
       IN Some([metadata EXCEPT !.activationCount = @ + 1])]
  /\ saveTabData

\* A call of updateTabActivity(tabId)
UpdateTabActivity ==
  \E tabId \in TrackedTabs :
    /\ saveLog.calls < MaxSaveCalls
    /\ NoTimerDue
    /\ updateTabActivity(tabId)
    /\ UNCHANGED <<storedTabs, clockMs, sleepVars, storedConfig, privVars, queryVars, apiVars, msgVars, lateVars, policyVars, memVars, tierVars,
                   hostVars, stats, store, cycles>>

\* Object.fromEntries(map) of a Map whose entries with string keys were
\* inserted first: an entry with the number key of the same tab comes
\* later and takes the property
FromEntries(stringKeyed, numberKeyed, absent) ==
  [i \in DOMAIN numberKeyed |->
     IF numberKeyed[i] # absent THEN numberKeyed[i]
     ELSE IF i \in DOMAIN stringKeyed THEN stringKeyed[i]
     ELSE absent]

\* The save timer fires: chrome.storage.local.set of the two maps
SaveTimerFires ==
  \E t \in timers :
    /\ t.left = 0
    /\ timers' = timers \ {t}
    /\ storedTabs' = Some(
         [tabActivityTimes |-> FromEntries(restored.tabActivityTimes, tabActivityTimes, 0),
          tabMetadata |-> FromEntries(restored.tabMetadata, tabMetadata, None)])
    /\ saveLog' = [saveLog EXCEPT !.writes = @ + 1, !.writeDelay = saveLog.sinceCall]
    /\ UNCHANGED <<saveTimeout, timerIds, clockMs, sleepVars, storedConfig, privVars, queryVars, apiVars, msgVars, lateVars, policyVars, memVars,
                   tierVars, cycVars>>

\* ClockStep milliseconds pass
ClockTick ==
  /\ clockMs < MaxClockMs
  /\ NoTimerDue
  /\ clockMs' = clockMs + ClockStep
  /\ now' = StartTime + Seconds(clockMs + ClockStep)
  /\ timers' = {[t EXCEPT !.left = @ - ClockStep] : t \in timers}
  /\ saveLog' = [saveLog EXCEPT !.sinceCall = Min(@ + ClockStep, 2 * SaveDelay)]
  /\ UNCHANGED <<saveTimeout, timerIds, storedTabs, sleepVars, storedConfig, privVars, queryVars, apiVars, msgVars, lateVars, config, memoryCache,
                 memoryCacheTime, memCalls, policyVars, tierVars, cycVars>>

SaveInit ==
  /\ SaveIdle
  /\ SleepIdle
  /\ ConfigIdle
  /\ PrivIdle
  /\ QueryIdle
  /\ ApiIdle
  /\ MsgIdle
  /\ LateIdle
  /\ tabActivityTimes = [i \in TrackedTabs |-> 0]
  /\ tabMetadata = [i \in TrackedTabs |-> None]
  /\ hostTabs = <<>>
  /\ activeTab = 0
  /\ memSource = SourceFails
  /\ failTab = 0
  /\ stats = NoStats
  /\ store = NoStore
  /\ cycles = <<>>
  /\ now = StartTime
  /\ config = DefaultConfig
  /\ memoryCache = None
  /\ memoryCacheTime = 0
  /\ memCalls = None
  /\ PolicyIdle
  /\ TierIdle

SaveNext == UpdateTabActivity \/ SaveTimerFires \/ ClockTick

\* The activity maps and their save timer under every timing of
\* updateTabActivity calls
SpecSave == SaveInit /\ [][SaveNext]_vars

-----------------------------------------------------------------------------
\* ResourceControls.initialize, the tab event listeners of the service
\* worker and the debounced save, from the construction of the engine on

\* The tab events the model follows
MaxEvents == 2

\* What the Store holds from an earlier run of the worker: nothing, or the
\* two objects with an entry for tab 1
EarlierTabs ==
  {None,
   Some([tabActivityTimes |-> [i \in TrackedTabs |-> IF i = 1 THEN StartTime - 100 ELSE 0],
         tabMetadata |-> [i \in TrackedTabs |->
           IF i = 1 THEN Some(Metadata(StartTime - 4000, 5, 0, 0)) ELSE None]])}

\* The settings the Store holds from an earlier run: none, or all four
EarlierConfigs ==
  {NoStoredConfig,
   [ramLimit |-> Some(3000), sleepTimer |-> Some(5), autoSleep |-> Some(TRUE),
    aggressiveMode |-> Some(FALSE)]}

\* Tab events received so far
EventCount ==
  LET Sum[i \in 0..Len(eventLog.activated)] ==
        IF i = 0 THEN 0 ELSE Sum[i - 1] + eventLog.activated[i] + eventLog.updated[i]
  IN Sum[Len(eventLog.activated)] + Cardinality(eventLog.removed)

\* chrome.tabs still has the tab
TabOpen(tabId) == tabId \notin eventLog.removed

\* The Maps keep what they hold and no save is scheduled
NoActivityUpdate ==
  UNCHANGED <<tabActivityTimes, tabMetadata, saveTimeout, timers, timerIds, saveLog>>

\* What no tab event and no step of initialize touches
TrackFrame ==
  UNCHANGED <<storedTabs, clockMs, scoreVars, timerVars, sleepVars, storedConfig, privVars, queryVars,
              apiVars, msgVars, policyVars, now, memoryCache, memoryCacheTime, memCalls,
              tierVars, activeTab, memSource, failTab, stats, store, cycles>>

\* Object.assign(this.config, { ramLimit: stored.ramLimit, ... }): the four
\* properties are copied, undefined when the Store has no value.  A
\* property that is undefined is a field the record does not have.
InitializedConfig(stored) ==
  LET undefined == {k \in DOMAIN stored : stored[k] = None}
  IN [k \in DOMAIN config \ undefined |->
        IF k \in DOMAIN stored THEN stored[k][1] ELSE config[k]]

\* initialize(): chrome.storage.local.get resolves; the config is merged
\* and each Map is replaced by new Map(Object.entries(stored...)), whose
\* keys are strings; up to await chrome.tabs.query in initializeTabActivities
InitializeRestores ==
  /\ enginePc = "get"
  /\ NoTimerDue
  /\ config' = InitializedConfig(storedConfig)
  /\ IF storedTabs # None
     THEN /\ restored' = [tabActivityTimes |-> storedTabs[1].tabActivityTimes,
                          tabMetadata |-> storedTabs[1].tabMetadata]
          /\ tabActivityTimes' = [i \in TrackedTabs |-> 0]
          /\ tabMetadata' = [i \in TrackedTabs |-> None]
     ELSE UNCHANGED <<restored, tabActivityTimes, tabMetadata>>
  /\ enginePc' = "query"
  /\ UNCHANGED <<storedTabs, clockMs, scoreVars, timerVars, sleepVars, storedConfig, privVars, queryVars,
                 apiVars, msgVars, policyVars, now, memoryCache, memoryCacheTime, memCalls,
                 tierVars, hostVars, stats, store, cycles, saveTimeout, timers, timerIds,
                 saveLog, wakes, eventLog>>

\* initializeTabActivities: chrome.tabs.query resolves; every open tab that
\* is no system page and has no entry under its (number) id gets one;
\* saveTabData.  cleanupOldData then finds nothing older than 30 days.
InitializeTabs ==
  /\ enginePc = "query"
  /\ NoTimerDue
  /\ LET Fresh(i) == TabOpen(i) /\ ~isSystemPage(hostTabs[i].url)
     IN /\ tabActivityTimes' = [i \in TrackedTabs |->
             IF Fresh(i) /\ tabActivityTimes[i] = 0 THEN now ELSE tabActivityTimes[i]]
        /\ tabMetadata' = [i \in TrackedTabs |->
             IF Fresh(i) /\ tabMetadata[i] = None
             THEN Some(Metadata(now, 0, 0, 0)) ELSE tabMetadata[i]]
  /\ saveTabData
  /\ enginePc' = "ready"
  /\ UNCHANGED <<restored, wakes, eventLog, hostTabs, config>>
  /\ TrackFrame

\* chrome.tabs.onActivated: updateTabActivity(tabId), then wakeTab(tabId)
\* up to await chrome.tabs.get
OnActivated ==
  \E tabId \in TrackedTabs :
    /\ EventCount < MaxEvents
    /\ NoTimerDue
    /\ TabOpen(tabId)
    /\ updateTabActivity(tabId)
    /\ wakes' = Append(wakes, [tab |-> tabId, pc |-> "get"])
    /\ eventLog' = [eventLog EXCEPT !.activated[tabId] = @ + 1,
                                    !.written = @ \cup {tabId}]
    /\ UNCHANGED <<enginePc, restored, hostTabs, config>>
    /\ TrackFrame

\* wakes without its k-th entry
WithoutWake(k) == SubSeq(wakes, 1, k - 1) \o SubSeq(wakes, k + 1, Len(wakes))

\* wakeTab: chrome.tabs.get settles.  It rejects for a closed tab, and
\* the catch block ends the call; a discarded tab is reloaded first;
\* otherwise updateTabActivity(tabId)
WakeTabGot ==
  \E k \in 1..Len(wakes) :
    /\ wakes[k].pc = "get"
    /\ NoTimerDue
    /\ LET tabId == wakes[k].tab
       IN IF ~TabOpen(tabId)
          THEN /\ wakes' = WithoutWake(k)
               /\ hostTabs' = hostTabs
               /\ NoActivityUpdate
          ELSE IF hostTabs[tabId].discarded
          THEN /\ wakes' = [wakes EXCEPT ![k].pc = "reload"]
               /\ hostTabs' = [hostTabs EXCEPT ![tabId].discarded = FALSE]
               /\ NoActivityUpdate
          ELSE /\ wakes' = WithoutWake(k)
               /\ hostTabs' = hostTabs
               /\ updateTabActivity(tabId)
    /\ UNCHANGED <<enginePc, restored, eventLog, config>>
    /\ TrackFrame

\* wakeTab: chrome.tabs.reload settles, then updateTabActivity(tabId)
WakeTabReloaded ==
  \E k \in 1..Len(wakes) :
    /\ wakes[k].pc = "reload"
    /\ NoTimerDue
    /\ wakes' = WithoutWake(k)
    /\ IF TabOpen(wakes[k].tab) THEN updateTabActivity(wakes[k].tab)
       ELSE NoActivityUpdate
    /\ UNCHANGED <<enginePc, restored, eventLog, hostTabs, config>>
    /\ TrackFrame

\* chrome.tabs.onUpdated with status complete or audible true
OnUpdated ==
  \E tabId \in TrackedTabs :
    /\ EventCount < MaxEvents
    /\ NoTimerDue
    /\ TabOpen(tabId)
    /\ updateTabActivity(tabId)
    /\ eventLog' = [eventLog EXCEPT !.updated[tabId] = @ + 1,
                                    !.written = @ \cup {tabId}]
    /\ UNCHANGED <<enginePc, restored, wakes, hostTabs, config>>
    /\ TrackFrame

\* chrome.tabs.onRemoved: removeTab(tabId) deletes the entries under the
\* number tabId and schedules a save
OnRemoved ==
  \E tabId \in TrackedTabs :
    /\ EventCount < MaxEvents
    /\ NoTimerDue
    /\ TabOpen(tabId)
    /\ tabActivityTimes' = [tabActivityTimes EXCEPT ![tabId] = 0]
    /\ tabMetadata' = [tabMetadata EXCEPT ![tabId] = None]
    /\ saveTabData
    /\ eventLog' = [eventLog EXCEPT !.removed = @ \cup {tabId}]
    /\ UNCHANGED <<enginePc, restored, wakes, hostTabs, config>>
    /\ TrackFrame

\* new ResourceControls() has run and initialize() waits for the Store;
\* tab 1 is discarded, tab 2 is not
TrackInit ==
  /\ enginePc = "get"
  /\ restored = NoRestored
  /\ wakes = <<>>
  /\ eventLog = [activated |-> [i \in TrackedTabs |-> 0],
                 updated |-> [i \in TrackedTabs |-> 0],
                 written |-> {}, removed |-> {}]
  /\ tabActivityTimes = [i \in TrackedTabs |-> 0]
  /\ tabMetadata = [i \in TrackedTabs |-> None]
  /\ storedTabs \in EarlierTabs
  /\ hostTabs = [i \in TrackedTabs |->
       [url |-> Page("https", <<"a">>, {}), audible |-> FALSE, discarded |-> i = 1]]
  /\ saveTimeout = 0
  /\ timers = {}
  /\ timerIds = 0
  /\ clockMs = 0
  /\ saveLog = NoSaveLog
  /\ activeTab = 0
  /\ memSource = SourceFails
  /\ failTab = 0
  /\ stats = NoStats
  /\ store = NoStore
  /\ cycles = <<>>
  /\ now = StartTime
  /\ config = DefaultConfig
  /\ memoryCache = None
  /\ memoryCacheTime = 0
  /\ memCalls = None
  /\ ScoreIdle
  /\ TimerIdle
  /\ SleepIdle
  /\ storedConfig \in EarlierConfigs
  /\ PrivIdle
  /\ QueryIdle
  /\ ApiIdle
  /\ MsgIdle
  /\ PolicyIdle
  /\ TierIdle

TrackNext ==
  \/ InitializeRestores
  \/ InitializeTabs
  \/ OnActivated
  \/ WakeTabGot
  \/ WakeTabReloaded
  \/ OnUpdated
  \/ OnRemoved
  \/ SaveTimerFires
  \/ ClockTick

\* The engine from its construction on, under every order of the steps of
\* initialize, the tab events, the wakeTab continuations and the save timer
SpecTrack == TrackInit /\ [][TrackNext]_vars

\* The write of a step that is a Store write of the activity maps
StoreWritten == saveLog'.writes = saveLog.writes + 1

\* The object a Store write holds has an entry for the tab
StoredEntry(tabs, tabId) ==
  tabs[1].tabActivityTimes[tabId] # 0 \/ tabs[1].tabMetadata[tabId] # None

\* C28: after removeTab(h) no write of the activity maps that reaches the
\* Store holds an entry for h: the write serializes the Maps as they are
\* when the timer fires, under every order of events, removals and timers.
C28_RemovedTabNotWritten ==
  [][StoreWritten =>
       \A h \in eventLog.removed : ~StoredEntry(storedTabs', h)]_vars

\* What holds: the write is made of the Maps as they are when the timer
\* fires, and a removed tab that has no entry under a string key is not
\* in it
C28_WriteReadsMapsAtFireTime ==
  [][StoreWritten =>
       /\ storedTabs' = Some(
            [tabActivityTimes |-> FromEntries(restored.tabActivityTimes, tabActivityTimes, 0),
             tabMetadata |-> FromEntries(restored.tabMetadata, tabMetadata, None)])
       /\ \A h \in eventLog.removed :
            (restored = NoRestored \/ ~StoredEntry(Some(restored), h)) =>
              ~StoredEntry(storedTabs', h)]_vars

\* C29: the restore of initialize() never drops or overwrites a record
\* that a tab event wrote to memory after the engine was constructed.
C29_RestoreKeepsNewerRecords ==
  \A h \in eventLog.written \ eventLog.removed :
    /\ tabActivityTimes[h] # 0
    /\ tabMetadata[h] # None
    /\ tabMetadata[h][1].activationCount >= 1

\* What holds: with nothing in the Store the records written by events stay
C29_KeptWhenNothingStored ==
  restored = NoRestored =>
    \A h \in eventLog.written \ eventLog.removed :
      /\ tabActivityTimes[h] # 0
      /\ tabMetadata[h] # None
      /\ tabMetadata[h][1].activationCount >= 1

\* C30: every activation event of a tab raises its activationCount by
\* exactly one, the onActivated path that records activity and then wakes
\* the tab included: the count never exceeds the events counted for the tab.
C30_ActivationCountedOnce ==
  \A h \in DOMAIN tabMetadata :
    tabMetadata[h] # None =>
      tabMetadata[h][1].activationCount <= eventLog.activated[h] + eventLog.updated[h]

\* What holds: the count never decreases while the record stays in the Map
C30_CountNeverDecreases ==
  [][\A h \in DOMAIN tabMetadata :
       (tabMetadata[h] # None /\ tabMetadata'[h] # None
          /\ tabMetadata'[h][1].createdAt = tabMetadata[h][1].createdAt) =>
         tabMetadata'[h][1].activationCount >= tabMetadata[h][1].activationCount]_vars

\* C35: a record saved for tab h and restored by initialize() is found
\* again under the id the browser reports: the Maps return the persisted
\* values for h, and removeTab(h) deletes the restored record.
C35_RestoredRecordFound ==
  \A h \in DOMAIN restored.tabActivityTimes :
    StoredEntry(Some(restored), h) =>
      /\ h \notin eventLog.removed
      /\ h \notin eventLog.written =>
           /\ tabActivityTimes[h] = restored.tabActivityTimes[h]
           /\ tabMetadata[h] = restored.tabMetadata[h]

\* The four settings initialize() reads from the Store
StoredSettings == {"ramLimit", "sleepTimer", "autoSleep", "aggressiveMode"}

\* C36: after initialize() on a Store that holds no settings, ramLimit,
\* sleepTimer, autoSleep and aggressiveMode still have the defaults of the
\* constructor (2000, 10, false, false), so the sleep timer of a later
\* cycle is a number between 1 and 60.
C36_DefaultsSurviveInitialize ==
  (enginePc # "get" /\ storedConfig = NoStoredConfig) =>
    \A k \in StoredSettings : k \in DOMAIN config /\ config[k] = DefaultConfig[k]

\* What holds: stored settings are restored, and initialize() leaves the
\* other properties of the config as the constructor set them
C36_StoredSettingsRestored ==
  enginePc # "get" =>
    /\ \A k \in StoredSettings :
         storedConfig[k] # None => (k \in DOMAIN config /\ config[k] = storedConfig[k][1])
    /\ \A k \in DOMAIN DefaultConfig \ StoredSettings :
         k \in DOMAIN config /\ config[k] = DefaultConfig[k]

-----------------------------------------------------------------------------
\* ResourceControls.updateConfig and the settings it stores

\* The values a caller supplies: nothing, or a number below, at, inside,
\* at the top of, or above the range
RamLimitInputs == {None, Some(0 - 1), Some(0), Some(999), Some(1000), Some(3000),
                   Some(5000), Some(5001)}

SleepTimerInputs == {None, Some(0 - 1), Some(0), Some(1), Some(30), Some(60), Some(61)}

FlagInputs == {None, Some(FALSE), Some(TRUE)}

\* request.settings, data.config of a backup and the config of PUT /config
\* may carry any key of this.config: here warningThreshold, absent or 90
ThresholdInputs == {None, Some(90)}

\* The objects passed as newConfig; None is a key the object does not have
ConfigInputs ==
  [ramLimit : RamLimitInputs, sleepTimer : SleepTimerInputs,
   autoSleep : FlagInputs, aggressiveMode : FlagInputs,
   warningThreshold : ThresholdInputs]

\* Math.max(lo, Math.min(hi, v))
Clamp(lo, hi, v) == Max(lo, Min(hi, v))

\* The validation of updateConfig: "if (newConfig.ramLimit)" is false
\* for a missing key and for 0
Validated(newConfig) ==
  [newConfig EXCEPT
     !.ramLimit = IF @ # None /\ @[1] # 0 THEN Some(Clamp(1000, 5000, @[1])) ELSE @,
     !.sleepTimer = IF @ # None /\ @[1] # 0 THEN Some(Clamp(1, 60, @[1])) ELSE @]

\* Object.assign(target, source) for the keys source has
Assigned(target, source) ==
  [k \in DOMAIN target |->
     IF k \in DOMAIN source /\ source[k] # None THEN source[k][1] ELSE target[k]]

\* chrome.storage.local.set(items): the keys of items are overwritten
StorageSet(stored, items) ==
  [k \in DOMAIN stored |->
     IF k \in DOMAIN items /\ items[k] # None THEN items[k] ELSE stored[k]]

updateConfig(newConfig) ==
  /\ config' = Assigned(config, Validated(newConfig))
  /\ storedConfig' = StorageSet(storedConfig, Validated(newConfig))

UpdateConfig ==
  \E newConfig \in ConfigInputs :
    /\ updateConfig(newConfig)
    /\ UNCHANGED <<now, memoryCache, memoryCacheTime, memCalls, policyVars, tierVars,
                   sleepVars, saveVars, privVars, queryVars, apiVars, msgVars, lateVars, cycVars>>

ConfigInit ==
  /\ PolicyIdle
  /\ MemIdle
  /\ TierIdle
  /\ AuxIdle
  /\ CycIdle

ConfigNext == UpdateConfig

\* The settings under every sequence of updateConfig calls
SpecConfig == ConfigInit /\ [][ConfigNext]_vars

\* C19: after any updateConfig call, whatever values were supplied,
\* config.ramLimit lies in 1000..5000 and config.sleepTimer lies in 1..60.
C19_SettingsStayInRange ==
  /\ config.ramLimit \in 1000..5000
  /\ config.sleepTimer \in 1..60

\* Every supplied number other than 0 is stored inside its range
C19_NonZeroStaysInRange ==
  /\ config.ramLimit \in (1000..5000) \cup {0}
  /\ config.sleepTimer \in (1..60) \cup {0}

\* C31: in every state reached by updateConfig calls the status thresholds
\* are strictly ordered: optimalThreshold < warningThreshold <
\* emergencyThreshold.
C31_ThresholdsOrdered ==
  /\ config.optimalThreshold < config.warningThreshold
  /\ config.warningThreshold < config.emergencyThreshold

\* What holds: updateConfig changes a threshold only to a value it is given
C31_ThresholdsOnlyAsSupplied ==
  [][\A k \in {"optimalThreshold", "warningThreshold", "emergencyThreshold"} :
       config'[k] # config[k] =>
         \E newConfig \in ConfigInputs :
           k \in DOMAIN newConfig /\ newConfig[k] = Some(config'[k])]_vars

-----------------------------------------------------------------------------
\* C20: a getMemoryInfo call made less than maxCacheAge (2000 ms) after
\* the last successful sample returns the cached reading unchanged and
\* does not query the source; a call made at or after that age queries
\* the source.
C20_CacheServedWhileYoung ==
  (memCalls # None /\ memCalls[1].cacheBefore # None) =>
    LET age == (memCalls[1].at - memCalls[1].cacheTimeBefore) * MsPerUnit
    IN  /\ age < 2000 =>
             /\ ~memCalls[1].sourceAsked
             /\ memCalls[1].returned = memCalls[1].cacheBefore
             /\ memoryCache = memCalls[1].cacheBefore
             /\ memoryCacheTime = memCalls[1].cacheTimeBefore
        /\ age >= 2000 => memCalls[1].sourceAsked

\* C20 witness: a call exactly 2000 ms after the sample asked the source
\* and got a new reading
C20_Witness ==
  /\ memCalls # None
  /\ memCalls[1].cacheBefore # None
  /\ (memCalls[1].at - memCalls[1].cacheTimeBefore) * MsPerUnit = 2000
  /\ memCalls[1].sourceAsked
  /\ ~memCalls[1].sourceFailed
  /\ memoryCacheTime = memCalls[1].at

-----------------------------------------------------------------------------
\* The calls of one pass, and the number of calls that succeeded
CallsOfPass(calls, passes) == SelectSeq(calls, LAMBDA call : call.pass \in passes)

Succeeded(calls) == Len(SelectSeq(calls, LAMBDA call : call.ok))

\* The discard loops of the cycle are over
LoopsOver(cy) == cy.pc \in {"statsGet", "statsSet", "done"}

\* What holds of one cycle at every moment: the calls made so far follow
\* the plan handle by handle, a finished loop has attempted its whole
\* plan, and the result reports the successes
AttemptsFollowPlan(cy) ==
  LET plan == CallsOfPass(cy.calls, {"policy", "tiered"})
      top == CallsOfPass(cy.calls, {"emergency"})
  IN  /\ Len(plan) <= Len(cy.toSleep)
      /\ \A k \in 1..Len(plan) : plan[k].tab = cy.toSleep[k]
      /\ Len(top) <= Min(cy.emToSleep, Len(cy.emergency))
      /\ \A k \in 1..Len(top) : top[k].tab = cy.emergency[k]
      /\ cy.pc \in {"emergency"} \cup {"statsGet", "statsSet", "done"} =>
           Len(plan) = Len(cy.toSleep)
      /\ LoopsOver(cy) => Len(top) = Min(cy.emToSleep, Len(cy.emergency))
      /\ cy.pc = "done" => cy.result[1].slept = Succeeded(cy.calls)

\* C16: a discard call that fails for one handle does not abort the
\* cycle: every remaining handle of the plan is still attempted in order,
\* and the slept count the cycle reports, and the amount it adds to
\* totalTabsSlept, equal the number of discard calls that succeeded.
C16_FailedDiscardDoesNotAbort ==
  [][\A c \in 1..Len(cycles') :
       /\ AttemptsFollowPlan(cycles'[c])
       /\ (c <= Len(cycles) /\ cycles[c].pc = "statsSet" /\ cycles'[c].pc = "done") =>
            store'.totalTabsSlept = cycles[c].read + Succeeded(cycles'[c].calls)]_vars

\* C16 witness: a finished cycle whose first discard was refused and whose
\* next discard succeeded, reporting one tab and having stored the sum
C16_Witness ==
  \E c \in 1..Len(cycles) :
    /\ cycles[c].pc = "done"
    /\ Len(cycles[c].calls) = 2
    /\ ~cycles[c].calls[1].ok
    /\ cycles[c].calls[2].ok
    /\ cycles[c].result[1].slept = 1
    /\ store.totalTabsSlept = cycles[c].read + 1

-----------------------------------------------------------------------------
\* exportAllData and importAllData (background.js), with PrivacyManager's
\* exportEncryptedBackup / importEncryptedBackup

\* The keys generateKey may return
Keys == {1, 2}

\* The UTF-16 code unit of a character, for Array.prototype.sort()
CharCode(c) ==
  CASE c = "*" -> 42
    [] c = "." -> 46
    [] c = "a" -> 97
    [] c = "b" -> 98
    [] c = "m" -> 109

\* a < b as sort() without a comparator orders two strings
RECURSIVE StringBefore(_, _)
StringBefore(a, b) ==
  IF b = <<>> THEN FALSE
  ELSE IF a = <<>> THEN TRUE
  ELSE IF a[1] = b[1] THEN StringBefore(Tail(a), Tail(b))
  ELSE CharCode(a[1]) < CharCode(b[1])

InsertSorted(sorted, d) ==
  LET pos == Cardinality({i \in 1..Len(sorted) : ~StringBefore(d, sorted[i])})
  IN SubSeq(sorted, 1, pos) \o <<d>> \o SubSeq(sorted, pos + 1, Len(sorted))

\* Array.from(set).sort()
RECURSIVE ArraySort(_)
ArraySort(list) ==
  IF list = <<>> THEN <<>>
  ELSE InsertSorted(ArraySort(SubSeq(list, 1, Len(list) - 1)), list[Len(list)])

\* An array as a field of the data handed to importRules
ListField(list) == [kind |-> "list", list |-> list]

\* getLists(): both sets as sorted arrays
getLists ==
  [whitelist |-> ListField(ArraySort(whitelist)),
   blacklist |-> ListField(ArraySort(blacklist))]

\* An object as JSON carries it: every key that has a value
Items(object) == [k \in DOMAIN object |-> Some(object[k])]

\* The fields of the exported object that importAllData reads (version,
\* timestamp, stats and privacy are written and never read back)
BackupData == [config |-> Some(Items(config)), whitelist |-> Some(getLists)]

\* A text in transit: the JSON of data, or the JSON of the wrapper whose
\* data is the text XORed with the key
PlainText(data) == [encrypted |-> FALSE, key |-> 0, data |-> data]

CipherText(key, data) == [encrypted |-> TRUE, key |-> key, data |-> data]

exportAllData ==
  IF isPrivacyMode THEN CipherText(encryptionKey, BackupData)
  ELSE PlainText(BackupData)

\* A parsed value that has neither a config nor a whitelist key: the
\* wrapper read as if it were the data, or the base64 string decrypt falls
\* back to when the XORed bytes are no JSON
NoBackupFields == [config |-> None, whitelist |-> None]

\* decrypt(parsed.data): XOR with this.encryptionKey, then JSON.parse
decrypt(text) ==
  IF text.key = encryptionKey THEN text.data ELSE NoBackupFields

\* data of importAllData
ParsedBackup(text) ==
  IF isPrivacyMode
  THEN IF text.encrypted THEN decrypt(text) ELSE text.data
  ELSE IF text.encrypted THEN NoBackupFields ELSE text.data

\* importAllData(dataStr): updateConfig(undefined) throws on reading
\* newConfig.ramLimit, before anything is assigned
importAllData(text) ==
  LET data == ParsedBackup(text)
  IN IF data.config = None
     THEN UNCHANGED <<config, storedConfig, policyVars>>
     ELSE /\ updateConfig(data.config[1])
          /\ IF data.whitelist # None
             THEN importRules(data.whitelist[1])
             ELSE UNCHANGED policyVars

\* Texts that no export produced: a backup whose whitelist field is no
\* array, and one without lists
HandMadeTexts ==
  { PlainText([config |-> Some(Items([DefaultConfig EXCEPT !.ramLimit = 4000])),
               whitelist |-> Some([whitelist |-> [kind |-> "malformed", list |-> <<>>],
                                   blacklist |-> ListField(<< <<"a">> >>)])]),
    PlainText([config |-> Some(Items([DefaultConfig EXCEPT !.sleepTimer = 30])),
               whitelist |-> None]) }

ImportTexts == (IF blob = None THEN {} ELSE {blob[1]}) \cup HandMadeTexts

MalformedRules(text) ==
  /\ text.data.whitelist # None
  /\ \/ text.data.whitelist[1].whitelist.kind = "malformed"
     \/ text.data.whitelist[1].blacklist.kind = "malformed"

Engine ==
  [whitelist |-> whitelist, blacklist |-> blacklist, patterns |-> patterns,
   storedLists |-> storedLists, config |-> config, isPrivacyMode |-> isPrivacyMode]

ImportForgotten == [backupLog EXCEPT !.import = None]

ExportAllData ==
  /\ blob' = Some(exportAllData)
  /\ backupLog' = [exported |-> Some(Engine), import |-> None]
  /\ UNCHANGED <<isPrivacyMode, encryptionKey, storedConfig, sleepVars, saveVars, queryVars, apiVars, msgVars, lateVars,
                 policyVars, memVars, tierVars, cycVars>>

ImportAllData ==
  \E text \in ImportTexts :
    /\ importAllData(text)
    /\ backupLog' = [backupLog EXCEPT !.import =
         Some([exportedText |-> blob = Some(text),
               malformedRules |-> MalformedRules(text),
               before |-> Engine])]
    /\ UNCHANGED <<isPrivacyMode, encryptionKey, blob, now, memoryCache,
                   memoryCacheTime, memCalls, sleepVars, saveVars, queryVars, apiVars, msgVars, lateVars, tierVars, cycVars>>

\* The extension starts on a profile that has no Store yet
NewProfile ==
  /\ whitelist' = <<>>
  /\ blacklist' = <<>>
  /\ patterns' = [whitelist |-> <<>>, blacklist |-> <<>>]
  /\ storedLists' = [whitelist |-> <<>>, blacklist |-> <<>>]
  /\ policyQuery' = None
  /\ config' = DefaultConfig
  /\ storedConfig' = NoStoredConfig
  /\ isPrivacyMode' = FALSE
  /\ encryptionKey' \in Keys
  /\ backupLog' = ImportForgotten
  /\ UNCHANGED <<blob, now, memoryCache, memoryCacheTime, memCalls, sleepVars,
                 saveVars, queryVars, apiVars, msgVars, lateVars, tierVars, cycVars>>

SetPrivacyMode ==
  \E enabled \in BOOLEAN :
    /\ isPrivacyMode' = enabled
    /\ backupLog' = ImportForgotten
    /\ UNCHANGED <<encryptionKey, blob, storedConfig, sleepVars, saveVars, queryVars, apiVars, msgVars, lateVars,
                   policyVars, memVars, tierVars, cycVars>>

ResetEncryptionKey ==
  /\ encryptionKey' \in Keys
  /\ backupLog' = ImportForgotten
  /\ UNCHANGED <<isPrivacyMode, blob, storedConfig, sleepVars, saveVars, queryVars, apiVars, msgVars, lateVars,
                 policyVars, memVars, tierVars, cycVars>>

\* The engines a backup is taken from: lists and settings an earlier
\* session left
BackupLists ==
  { [whitelist |-> <<>>, blacklist |-> <<>>],
    [whitelist |-> << <<"m", ".", "a">>, <<"*", ".", "a">> >>,
     blacklist |-> << <<"b">> >>] }

BackupConfigs ==
  { DefaultConfig,
    [DefaultConfig EXCEPT !.ramLimit = 3000, !.sleepTimer = 30, !.autoSleep = TRUE] }

BackupInit ==
  /\ \E lists \in BackupLists :
       /\ whitelist = lists.whitelist
       /\ blacklist = lists.blacklist
       /\ patterns = [whitelist |-> compilePatterns(lists.whitelist),
                      blacklist |-> compilePatterns(lists.blacklist)]
       /\ storedLists = lists
  /\ policyQuery = None
  /\ config \in BackupConfigs
  /\ storedConfig = IF config = DefaultConfig THEN NoStoredConfig
                    ELSE StorageSet(NoStoredConfig, Items(config))
  /\ isPrivacyMode \in BOOLEAN
  /\ encryptionKey \in Keys
  /\ blob = None
  /\ backupLog = [exported |-> None, import |-> None]
  /\ now = 0
  /\ memoryCache = None
  /\ memoryCacheTime = 0
  /\ memCalls = None
  /\ TierIdle
  /\ SleepIdle
  /\ SaveIdle
  /\ QueryIdle
  /\ ApiIdle
  /\ MsgIdle
  /\ LateIdle
  /\ CycIdle

BackupNext ==
  \/ ExportAllData
  \/ ImportAllData
  \/ NewProfile
  \/ SetPrivacyMode
  \/ ResetEncryptionKey

\* Backups taken and restored, on one profile and across profiles
SpecBackup == BackupInit /\ [][BackupNext]_vars

\* The last step imported the text of the last export into an engine
\* with empty override sets and the default config, in the privacy mode
\* the export was made in
RoundTripMade ==
  /\ backupLog.exported # None
  /\ backupLog.import # None
  /\ backupLog.import[1].exportedText
  /\ backupLog.import[1].before.isPrivacyMode = backupLog.exported[1].isPrivacyMode
  /\ backupLog.import[1].before.whitelist = <<>>
  /\ backupLog.import[1].before.blacklist = <<>>
  /\ backupLog.import[1].before.config = DefaultConfig

RoundTripExact ==
  /\ Range(whitelist) = Range(backupLog.exported[1].whitelist)
  /\ Range(blacklist) = Range(backupLog.exported[1].blacklist)
  /\ config = backupLog.exported[1].config

\* C13: with the privacy mode unchanged between the two calls,
\* importAllData of the text exportAllData returned, into an engine with
\* empty override sets and the default config, leaves allow and deny sets
\* equal to the exporter's and a config equal to the exporter's.
C13_ExportImportRoundTrip == RoundTripMade => RoundTripExact

\* The round trip is exact when privacy mode is off, and when the key is
\* the one the backup was encrypted with
C13_HoldsWithOneKey ==
  (RoundTripMade /\ (~isPrivacyMode \/ blob[1].key = encryptionKey)) => RoundTripExact

\* C15: importRules with malformed data is rejected as a whole: allow
\* set, deny set, both compiled pattern lists and the persisted lists are
\* what they were before the call; and importAllData applies neither the
\* config nor any list of a text whose policy part is malformed.
C15_MalformedImportRejected ==
  (backupLog.import # None /\ backupLog.import[1].malformedRules) =>
    /\ whitelist = backupLog.import[1].before.whitelist
    /\ blacklist = backupLog.import[1].before.blacklist
    /\ patterns = backupLog.import[1].before.patterns
    /\ storedLists = backupLog.import[1].before.storedLists
    /\ config = backupLog.import[1].before.config

-----------------------------------------------------------------------------
\* getSleepPriority as the engine runs it: Set.has, then
\* patterns.some(pattern => pattern.test(domain)) on RegExp objects, which
\* carry a lastIndex

MaxQueries == 3

\* The flags of a pattern that is also global
RegExpFlagsGlobal == {"g", "i"}

\* The flags compilePatterns gives every pattern: new RegExp(..., 'i')
RegExpFlags == {"i"}

\* The matches of re in s that start at index start or later, as
\* <<from, alternative, to>>
MatchesFrom(re, s, start) ==
  LET alts == Alternatives(re)
  IN { m \in (1..(Len(s) + 1)) \X (1..Len(alts)) \X (0..Len(s)) :
         /\ m[1] - 1 >= start
         /\ m[3] >= m[1] - 1
         /\ m[2] = 1 => m[1] = 1
         /\ m[2] = Len(alts) => m[3] = Len(s)
         /\ MatchAll(alts[m[2]], SubSeq(s, m[1], m[3])) }

\* The match exec reports: leftmost start, first alternative, longest
FirstMatch(ms) ==
  CHOOSE m \in ms :
    \A o \in ms :
      \/ m[1] < o[1]
      \/ m[1] = o[1] /\ m[2] < o[2]
      \/ m[1] = o[1] /\ m[2] = o[2] /\ m[3] >= o[3]

\* pattern.test(s) on a RegExp whose lastIndex is li: the result and the
\* lastIndex it leaves.  Without the flags g and y the search starts at 0
\* and lastIndex is not written.
RegExpTestAt(re, s, li) ==
  IF RegExpFlags \cap {"g", "y"} = {}
  THEN [found |-> RegExpTest(re, s), lastIndex |-> li]
  ELSE IF li > Len(s) \/ MatchesFrom(re, s, li) = {}
       THEN [found |-> FALSE, lastIndex |-> 0]
       ELSE [found |-> TRUE, lastIndex |-> FirstMatch(MatchesFrom(re, s, li))[3]]

\* pats.some(pattern => pattern.test(s)) from pattern k on: stops at the
\* first pattern that matches
RECURSIVE SomeTest(_, _, _, _)
SomeTest(pats, li, s, k) ==
  IF k > Len(pats) THEN [found |-> FALSE, lastIndex |-> li]
  ELSE LET r == RegExpTestAt(pats[k], s, li[k])
           li2 == [li EXCEPT ![k] = r.lastIndex]
       IN IF r.found THEN [found |-> TRUE, lastIndex |-> li2]
          ELSE SomeTest(pats, li2, s, k + 1)

\* isWhitelisted / isBlacklisted on the RegExp objects
ListTest(list, pats, li, url) ==
  IF ~UrlParses(url) THEN [found |-> FALSE, lastIndex |-> li]
  ELSE IF Hostname(url) \in Range(list) THEN [found |-> TRUE, lastIndex |-> li]
  ELSE SomeTest(pats, li, Hostname(url), 1)

\* One getSleepPriority(url) call
GetSleepPriority ==
  \E url \in PolicyUrls :
    /\ Len(queryLog) < MaxQueries
    /\ LET wl == ListTest(whitelist, patterns.whitelist, lastIndex.whitelist, url)
           bl == ListTest(blacklist, patterns.blacklist, lastIndex.blacklist, url)
           priority == IF wl.found THEN 0 ELSE IF bl.found THEN 2 ELSE 1
       IN /\ lastIndex' = [whitelist |-> wl.lastIndex,
                           blacklist |-> IF wl.found THEN lastIndex.blacklist
                                         ELSE bl.lastIndex]
          /\ queryLog' = Append(queryLog, [url |-> url, priority |-> priority])
    /\ UNCHANGED <<policyVars, memVars, tierVars, sleepVars, saveVars, storedConfig,
                   privVars, apiVars, msgVars, lateVars, cycVars>>

QueryInit ==
  /\ \E lists \in ListSeeds :
       /\ whitelist = lists.whitelist
       /\ blacklist = lists.blacklist
       /\ patterns = [whitelist |-> compilePatterns(lists.whitelist),
                      blacklist |-> compilePatterns(lists.blacklist)]
       /\ storedLists = lists
       /\ lastIndex = [whitelist |-> [i \in 1..Len(lists.whitelist) |-> 0],
                       blacklist |-> [i \in 1..Len(lists.blacklist) |-> 0]]
  /\ policyQuery = None
  /\ queryLog = <<>>
  /\ MemIdle
  /\ TierIdle
  /\ SleepIdle
  /\ SaveIdle
  /\ ConfigIdle
  /\ PrivIdle
  /\ ApiIdle
  /\ MsgIdle
  /\ LateIdle
  /\ CycIdle

QueryNext == GetSleepPriority

\* getSleepPriority calls one after another, with no add, remove or
\* import between them
SpecQuery == QueryInit /\ [][QueryNext]_vars

\* C14: getSleepPriority is pure: two calls with the same URL and no add,
\* remove or import between them return the same value, and a call
\* changes neither the allow and deny sets nor the compiled pattern lists.
C14_QueryIsPure ==
  [][/\ whitelist' = whitelist
     /\ blacklist' = blacklist
     /\ patterns' = patterns
     /\ lastIndex' = lastIndex
     /\ \A i, j \in 1..Len(queryLog') :
          queryLog'[i].url = queryLog'[j].url =>
            queryLog'[i].priority = queryLog'[j].priority]_vars

\* C14 witness: three calls for m.a, which only a compiled pattern of the
\* allow list matches, each answered 0
C14_Witness ==
  /\ Len(queryLog) = 3
  /\ \A i \in 1..3 : queryLog[i].url = Url("https", <<"m", ".", "a">>)
  /\ queryLog[1].priority = 0
  /\ <<"m", ".", "a">> \notin Range(whitelist)

-----------------------------------------------------------------------------
\* APIManager.handleExternalRequest and checkRateLimit

\* One hour in milliseconds, and half an hour in seconds
HourMs == 3600000

HalfHour == (HourMs \div MsPerUnit) \div 2

MaxRateTicks == 1

\* The moments requests arrive at: half past the hour, then every half
\* hour
RateTimes == {HalfHour * k : k \in 1..(MaxRateTicks + 1)}

\* The key generateApiKey made, and a key nobody made
ApiKeyInputs == {"ext_1", "ext_unknown"}

EndpointInputs == {"GET:/stats", "GET:/none"}

\* this.endpoints has a handler for the key
HasEndpoint(endpointKey) == endpointKey = "GET:/stats"

\* keyData as generateApiKey stores it
KeyData == [rateLimit |-> 100, enabled |-> TRUE]

\* Map.get(key) || 0
CountOf(counts, limitKey) == IF limitKey \in DOMAIN counts THEN counts[limitKey] ELSE 0

\* limitKey = `${apiKey}:${hour}`
LimitKey(apiKey, t) == <<apiKey, (t * MsPerUnit) \div HourMs>>

verifyApiKey(key) == key \in DOMAIN apiManager.apiKeys /\ apiManager.apiKeys[key].enabled

\* checkRateLimit(apiKey): whether the request passes
checkRateLimit(apiKey) ==
  /\ apiKey \in DOMAIN apiManager.apiKeys
  /\ CountOf(apiManager.requestCounts, LimitKey(apiKey, now)) <
       apiManager.apiKeys[apiKey].rateLimit

\* cleanupRateLimits(currentHour): entries older than the hour before go
cleanupRateLimits(counts, currentHour) ==
  [k \in {l \in DOMAIN counts : ~(l[2] < currentHour - 1)} |-> counts[k]]

\* requestCounts after a call of checkRateLimit that passed; cleanup says
\* whether Math.random() < 0.01
CountsAfter(apiKey, cleanup) ==
  LET limitKey == LimitKey(apiKey, now)
      counted == (limitKey :> (CountOf(apiManager.requestCounts, limitKey) + 1))
                   @@ apiManager.requestCounts
  IN IF cleanup THEN cleanupRateLimits(counted, limitKey[2]) ELSE counted

Failure(error) == [success |-> FALSE, error |-> error]

\* The requests of apiKey let through from moment from on, before to
RECURSIVE PassedBetween(_, _, _, _)
PassedBetween(passed, apiKey, from, to) ==
  LET at == {k \in DOMAIN passed : k[1] = apiKey /\ k[2] >= from /\ k[2] < to}
  IN IF at = {} THEN 0
     ELSE LET k == CHOOSE x \in at : \A y \in at : x[2] <= y[2]
          IN passed[k] + PassedBetween(passed, apiKey, k[2] + 1, to)

\* The answer to one request, whether its handler ran, and whether the
\* hour up to the request already held rateLimit requests of its key
Answer(request, response, ran) ==
  Some([request |-> request, response |-> response, handlerRan |-> ran,
        quotaMet |-> /\ request.apiKey \in DOMAIN apiManager.apiKeys
                     /\ PassedBetween(apiLog.passed, request.apiKey,
                                      now - (HourMs \div MsPerUnit) + 1, now + 1)
                          >= apiManager.apiKeys[request.apiKey].rateLimit])

\* One external request, from the listener to the response
HandleExternalRequest ==
  \E apiKey \in ApiKeyInputs, endpointKey \in EndpointInputs, cleanup \in BOOLEAN :
    LET request == [apiKey |-> apiKey, endpointKey |-> endpointKey]
        at == <<apiKey, now>>
    IN /\ IF ~apiManager.apiEnabled
          THEN /\ apiLog' = [apiLog EXCEPT
                               !.last = Answer(request, Failure("API disabled"), FALSE)]
               /\ UNCHANGED apiManager
          ELSE IF ~verifyApiKey(apiKey)
          THEN /\ apiLog' = [apiLog EXCEPT
                               !.last = Answer(request, Failure("Invalid API key"), FALSE)]
               /\ UNCHANGED apiManager
          ELSE IF ~checkRateLimit(apiKey)
          THEN /\ apiLog' = [apiLog EXCEPT
                               !.last = Answer(request, Failure("Rate limit exceeded"), FALSE)]
               /\ UNCHANGED apiManager
          ELSE /\ apiManager' = [apiManager EXCEPT
                                   !.requestCounts = CountsAfter(apiKey, cleanup)]
               /\ apiLog' =
                    [passed |-> (at :> (CountOf(apiLog.passed, at) + 1)) @@ apiLog.passed,
                     last |-> IF HasEndpoint(endpointKey)
                              THEN Answer(request, [success |-> TRUE, error |-> Null], TRUE)
                              ELSE Answer(request, Failure("Endpoint not found"), FALSE)]
       /\ UNCHANGED <<policyVars, memVars, tierVars, sleepVars, saveVars, storedConfig,
                      privVars, queryVars, msgVars, lateVars, cycVars>>

\* Half an hour passes
RateTick ==
  /\ now < HalfHour * (MaxRateTicks + 1)
  /\ now' = now + HalfHour
  /\ UNCHANGED <<config, memoryCache, memoryCacheTime, memCalls, policyVars, tierVars,
                 auxVars, cycVars>>

RateInit ==
  /\ now = HalfHour
  /\ apiManager = [apiEnabled |-> TRUE, apiKeys |-> ("ext_1" :> KeyData),
                   requestCounts |-> <<>>]
  /\ apiLog = [passed |-> <<>>, last |-> None]
  /\ config = DefaultConfig
  /\ memoryCache = None
  /\ memoryCacheTime = 0
  /\ memCalls = None
  /\ PolicyIdle
  /\ TierIdle
  /\ SleepIdle
  /\ SaveIdle
  /\ ConfigIdle
  /\ PrivIdle
  /\ QueryIdle
  /\ MsgIdle
  /\ LateIdle
  /\ CycIdle

RateNext == HandleExternalRequest \/ RateTick

\* External requests of one key around the turn of an hour
SpecRate == RateInit /\ [][RateNext]_vars

\* C18: for each API key, in any rolling one-hour window at most
\* rateLimit (default 100) requests pass checkRateLimit; a request over
\* the quota is answered 'Rate limit exceeded' and its handler is not run.
C18_RollingHourQuota ==
  /\ \A apiKey \in DOMAIN apiManager.apiKeys :
       \A t \in RateTimes :
         PassedBetween(apiLog.passed, apiKey, t, t + (HourMs \div MsPerUnit))
           <= apiManager.apiKeys[apiKey].rateLimit
  /\ (apiLog.last # None /\ apiLog.last[1].quotaMet) =>
       /\ apiLog.last[1].response = Failure("Rate limit exceeded")
       /\ ~apiLog.last[1].handlerRan

\* Within one clock hour the quota holds
C18_ClockHourQuota ==
  \A apiKey \in DOMAIN apiManager.apiKeys :
    \A t \in RateTimes :
      LET hourStart == ((t * MsPerUnit) \div HourMs) * (HourMs \div MsPerUnit)
      IN PassedBetween(apiLog.passed, apiKey, hourStart,
                       hourStart + (HourMs \div MsPerUnit))
           <= apiManager.apiKeys[apiKey].rateLimit

-----------------------------------------------------------------------------
\* chrome.runtime.onMessage: handleMessage(request, sender, sendResponse)

MaxMessages == 2

\* The case labels of handleMessage's switch
KnownActions ==
  {"updateSettings", "getStats", "forceSleep", "resetStats", "addToWhitelist",
   "removeFromWhitelist", "addToBlacklist", "removeFromBlacklist", "getLists",
   "setPrivacyMode", "exportData", "importData", "generateApiKey", "getApiKeys"}

\* The cases that reach sendResponse without an await
SyncActions == {"getLists", "getApiKeys"}

\* The cases whose response carries data
DataActions ==
  {"getStats", "forceSleep", "getLists", "exportData", "generateApiKey", "getApiKeys"}

Request(action, settings, domain, enabled, data) ==
  [action |-> action, settings |-> settings, domain |-> domain,
   enabled |-> enabled, data |-> data]

\* request.settings: missing, or an object
MessageSettings ==
  {None,
   Some([ramLimit |-> None, sleepTimer |-> Some(30), autoSleep |-> None,
         aggressiveMode |-> None])}

MessageDomain == Raw(FALSE, <<"*", ".", "a">>)

\* request.data of importData: a string that is no JSON, or a backup text
NotJson == [json |-> FALSE, text |-> PlainText(NoBackupFields)]

MessageData == {NotJson} \cup {[json |-> TRUE, text |-> t] : t \in HandMadeTexts}

\* The messages a sender may post; "bogus" and "undefined" are actions no
\* case names
RequestInputs ==
  {Request("updateSettings", x, MessageDomain, FALSE, NotJson) : x \in MessageSettings}
    \cup {Request(a, None, MessageDomain, TRUE, NotJson) :
            a \in (KnownActions \ {"updateSettings", "importData"})
                    \cup {"bogus", "undefined"}}
    \cup {Request("importData", None, MessageDomain, FALSE, d) : d \in MessageData}

\* JSON.parse(dataStr) or updateConfig(data.config) of importAllData throws
importAllDataThrows(data) == ~data.json \/ ParsedBackup(data.text).config = None

\* error.message of what the case of the request throws, Null when it
\* throws nothing: every case reads a manager that is still null before
\* initializeManagers has run
Thrown(request) ==
  IF ~managersReady THEN "Cannot read properties of null"
  ELSE IF request.action = "updateSettings" /\ request.settings = None
       THEN "Cannot read properties of undefined"
  ELSE IF request.action = "importData" /\ importAllDataThrows(request.data)
       THEN "Unexpected token"
  ELSE Null

MessageOk(hasData) == [success |-> TRUE, hasData |-> hasData, error |-> Null]

MessageError(error) == [success |-> FALSE, hasData |-> FALSE, error |-> error]

\* A catch block that only logs
CatchBlockSilent(responses, error) == responses

\* catch (error) { sendResponse({ success: false, error: error.message }) }
CatchBlock(responses, error) == Append(responses, MessageError(error))

\* default: sendResponse({ success: false, error: 'Unknown action' })
DefaultCase(responses) == Append(responses, MessageError("Unknown action"))

\* handleMessage up to its first await, or to its end
Dispatched(request) ==
  LET thrown == Thrown(request)
      msg == [request |-> request, thrown |-> Null, pc |-> "returned", responses |-> <<>>]
  IN IF request.action \notin KnownActions
     THEN [msg EXCEPT !.responses = DefaultCase(@)]
     ELSE IF thrown # Null
     THEN [msg EXCEPT !.thrown = thrown, !.responses = CatchBlock(@, thrown)]
     ELSE IF request.action \in SyncActions
     THEN [msg EXCEPT !.responses = Append(@, MessageOk(TRUE))]
     ELSE [msg EXCEPT !.pc = "await"]

\* What the awaited call of the case does to the managers
Effect(request) ==
  CASE request.action = "updateSettings" ->
         /\ updateConfig(request.settings[1])
         /\ UNCHANGED <<policyVars, isPrivacyMode, stats, store, apiManager>>
    [] request.action = "addToWhitelist" ->
         /\ addToWhitelist(request.domain)
         /\ UNCHANGED <<config, storedConfig, isPrivacyMode, stats, store, apiManager>>
    [] request.action = "removeFromWhitelist" ->
         /\ removeFromWhitelist(request.domain)
         /\ UNCHANGED <<config, storedConfig, isPrivacyMode, stats, store, apiManager>>
    [] request.action = "addToBlacklist" ->
         /\ addToBlacklist(request.domain)
         /\ UNCHANGED <<config, storedConfig, isPrivacyMode, stats, store, apiManager>>
    [] request.action = "removeFromBlacklist" ->
         /\ removeFromBlacklist(request.domain)
         /\ UNCHANGED <<config, storedConfig, isPrivacyMode, stats, store, apiManager>>
    [] request.action = "setPrivacyMode" ->
         /\ isPrivacyMode' = request.enabled
         /\ UNCHANGED <<config, storedConfig, policyVars, stats, store, apiManager>>
    [] request.action = "importData" ->
         /\ importAllData(request.data.text)
         /\ UNCHANGED <<isPrivacyMode, stats, store, apiManager>>
    [] request.action = "resetStats" ->
         /\ stats' = NoStats
         /\ store' = NoStore
         /\ UNCHANGED <<config, storedConfig, policyVars, isPrivacyMode, apiManager>>
    [] request.action = "generateApiKey" ->
         /\ apiManager' = [apiManager EXCEPT !.apiKeys = ("ext_1" :> KeyData)]
         /\ UNCHANGED <<config, storedConfig, policyVars, isPrivacyMode, stats, store>>
    [] OTHER ->
         UNCHANGED <<config, storedConfig, policyVars, isPrivacyMode, stats, store,
                     apiManager>>

\* What no message handler writes here: the host has no tab to discard
MessageFrame ==
  UNCHANGED <<now, memoryCache, memoryCacheTime, memCalls, tierVars, sleepVars, saveVars, lateVars,
              encryptionKey, blob, backupLog, queryVars, apiLog, hostVars,
              tabActivityTimes, tabMetadata, cycles>>

\* initializeManagers has run to its end
InitializeManagers ==
  /\ ~managersReady
  /\ managersReady' = TRUE
  /\ UNCHANGED <<messages, config, storedConfig, policyVars, isPrivacyMode, stats, store,
                 apiManager>>
  /\ MessageFrame

\* The listener is called with a message
OnMessage ==
  \E request \in RequestInputs :
    /\ Len(messages) < MaxMessages
    /\ messages' = Append(messages, Dispatched(request))
    /\ UNCHANGED <<managersReady, config, storedConfig, policyVars, isPrivacyMode, stats,
                   store, apiManager>>
    /\ MessageFrame

\* The awaited call of a case resolves; sendResponse and break follow
HandlerResumes ==
  \E m \in 1..Len(messages) :
    /\ messages[m].pc = "await"
    /\ Effect(messages[m].request)
    /\ messages' = [messages EXCEPT ![m] =
         [@ EXCEPT !.pc = "returned",
                   !.responses =
                      Append(@, MessageOk(messages[m].request.action \in DataActions))]]
    /\ UNCHANGED managersReady
    /\ MessageFrame

MessageInit ==
  /\ managersReady = FALSE
  /\ messages = <<>>
  /\ PolicyIdle
  /\ MemIdle
  /\ TierIdle
  /\ SleepIdle
  /\ SaveIdle
  /\ ConfigIdle
  /\ PrivIdle
  /\ QueryIdle
  /\ ApiIdle
  /\ LateIdle
  /\ CycIdle

MessageNext == InitializeManagers \/ OnMessage \/ HandlerResumes

\* The message listener under every order of messages; a promise that is
\* awaited settles
SpecMessage == MessageInit /\ [][MessageNext]_vars /\ WF_vars(HandlerResumes)

\* The responses a message has got are right for it
AnsweredRight(msg) ==
  /\ Len(msg.responses) <= 1
  /\ msg.pc = "returned" => Len(msg.responses) = 1
  /\ \A k \in 1..Len(msg.responses) :
       LET r == msg.responses[k]
       IN /\ r.success => r.error = Null
          /\ ~r.success => (r.error # Null /\ ~r.hasData)
          /\ msg.request.action \notin KnownActions => r = MessageError("Unknown action")
          /\ msg.thrown # Null => r = MessageError(msg.thrown)

\* C17: every message handed to handleMessage gets exactly one response
\* of the shape {success, data | error}: an unknown action gets
\* {success: false, error: 'Unknown action'}, an exception in a handler
\* gets {success: false, error}, and no message is left without a
\* response (a response once sent stays sent, so it is enough that again
\* and again every message received so far has its response).
C17_EveryMessageAnswered ==
  /\ [](\A m \in 1..Len(messages) : AnsweredRight(messages[m]))
  /\ []<>(\A m \in 1..Len(messages) : Len(messages[m].responses) = 1)

\* C17 witness: a message whose handler threw and a message with an
\* unknown action, each answered once
C17_Witness ==
  /\ Len(messages) = 2
  /\ messages[1].thrown # Null
  /\ messages[1].responses = <<MessageError(messages[1].thrown)>>
  /\ messages[2].request.action = "bogus"
  /\ messages[2].responses = <<MessageError("Unknown action")>>

=============================================================================
